---------------------------- MODULE Spec2Model ----------------------------
(***************************************************************************)
(* A model of the OSRM client of nextmv-sdk (route/osrm/client.go): the    *)
(* table-request planner, the bounded fan-out/fan-in of Table, the         *)
(* stitching of block responses, and the cached GET.                       *)
(*                                                                         *)
(* Coordinates are integers in micro-degrees: the planner prints every     *)
(* coordinate with "%f" (six decimals), so a path carries exactly that.    *)
(* Matrices are sequences of rows; Go's nil slice is the empty sequence.   *)
(* Costs are integers.                                                     *)
(***************************************************************************)
EXTENDS Integers, Sequences, FiniteSets, TLC

(***************************************************************************)
(* Bounds of the model.                                                    *)
(***************************************************************************)
\* Largest number of points of a stitching run.
MaxPoints == 3
\* Largest max-table-size (block size) of a stitching run.
MaxBlock == 3
\* Largest cache capacity given to WithCache.
MaxCache == 2
\* Largest number of sequential Get calls on one client.
MaxCalls == 3
\* Largest number of points of a Table call with concurrent tasks.
MaxTablePoints == 3
\* The max-table-size of the client of such a call.
TableBlock == 2
\* Largest value given to the ParallelRuns option.
MaxRuns == 2
\* Largest number of failing transport calls during one Table call.
MaxFailures == 2
\* Largest number of sequential Get calls of a run with answered calls only.
MaxLruCalls == 4
\* Largest number of setter calls on one client.
MaxSetterCalls == 3
\* Largest value given to a setter.
MaxSetting == 2
\* Largest number of points given to deflateZeroes.
MaxFilterPoints == 3
\* The Table calls made one after the other on one client.
MaxTableRounds == 2

(***************************************************************************)
(* Program constants.                                                      *)
(***************************************************************************)
\* NewClient: maxTableSize: 100
DefaultMaxTableSize == 100
\* Table: parallelRuns: 16
DefaultParallelRuns == 16
\* DefaultClient: WithCache(100)
DefaultCacheSize == 100
\* http.StatusOK, http.StatusBadRequest
StatusOK == 200
StatusBadRequest == 400

\* var unroutablePoint = measure.Point{-143.292892, 37.683603}
unroutablePoint == << -143292892, 37683603 >>

VARIABLES
    \* ---- the stitching run (plan, arrive in some order, stitch)
    spc,          \* "plan" | "arrive" | "stitched"
    sPoints,      \* the points handed to the planner
    sClient,      \* the client's settings
    sConfig,      \* the tableConfig of the call
    sChunks,      \* chunkBy's blocks of the converted points
    sRequests,    \* the planner's requests
    sLeft,        \* indices (into sRequests) of the responses not yet arrived
    sResponses,   \* the responses in arrival order, stamped with row/column
    sMerged,      \* mergeRequests' result
    \* ---- sequential Get calls on one client
    gClient,      \* the client's settings
    gCache,       \* the LRU cache: entries [key, value], most recently used first
    gHist,        \* per uri: what the calls so far did (an observer's record)
    gLast,        \* the last call: its uri and what it returned
    gCalls,       \* number of Get calls made
    gCacheOps,    \* number of cache reads and of cache writes (an observer's record)
    gUsed,        \* per uri: the call that last used its entry (an observer's record)
    \* ---- one Table call with its concurrent tasks
    tpc,          \* the caller: "call" | "drain" | "returned" | "panicked"
    tClient,      \* the client's settings
    tConfig,      \* the tableConfig of the call
    tPoints,      \* the points of the call
    tPlan,        \* originalLength, deflatedIndices and the planned requests
    tTask,        \* per request: where its task is
    tGuard,       \* number of values in the guard channel
    tOut,         \* the out channel: results sent and not yet received
    tClosed,      \* guard and out have been closed
    tResults,     \* the results received, in arrival order
    tCache,       \* the client's LRU cache
    tReqCount,    \* per request: transport calls made by its task
    tFailed,      \* the requests that failed (an observer's record)
    tTouched,     \* the cache has been read or written (an observer's record)
    \* ---- the Polyline call that follows the Table call on the same client
    ppc,          \* "idle" | "wait" | "inflight" | "returned" | "panicked"
    pPath,        \* the paths Polyline built (none or one)
    pCalls,       \* transport calls made by Polyline
    pRet,         \* what Polyline returned
    \* ---- one removal and restoration of empty points
    fpc,          \* "deflate" | "inflate" | "done" | "panicked"
    fPoints,      \* the points given to deflateZeroes
    fDeflated,    \* deflateZeroes' result
    fMatrix,      \* the matrix given to inflateZeroes
    fInflated,    \* inflateZeroes' result
    \* ---- setter calls on one client
    cClient,      \* the client's settings
    cPrev,        \* the settings before the last setter call
    cLast,        \* the last setter call: its name, its argument, its error
    cCalls,       \* number of setter calls made
    \* ---- Table calls repeated on one client
    rRound,       \* which Table call of the client the call in progress is
    rFirst,       \* what the client's first Table call returned
    \* ---- concurrent requests to one HTTP runner
    hCap,         \* capacity of the maxParallel channel
    hSlots,       \* number of values in the maxParallel channel
    hpc,          \* per request: where its ServeHTTP call stands
    hProducer,    \* the runner's IOProducer: the request it was built from
    hUsed,        \* per request: the request whose IOProducer its run used
    hStatus,      \* per request: the status written to its response
    hSeen,        \* per request: the value of hSlots its select found
    \* ---- Get calls on one MultiMap
    mM,           \* the map m.m: index -> value
    mCreated,     \* per tuple of identifiers: number of create calls
    mRequested,   \* the tuples Get has been called with
    mLast,        \* the last Get call: its identifiers and its result
    mCalls,       \* number of Get calls made
    tRet          \* what Table returned

stitchVars == << spc, sPoints, sClient, sConfig, sChunks, sRequests, sLeft,
                 sResponses, sMerged >>

getVars == << gClient, gCache, gHist, gLast, gCalls, gCacheOps, gUsed >>

tableVars == << tpc, tClient, tConfig, tPoints, tPlan, tTask, tGuard, tOut,
                tClosed, tResults, tCache, tReqCount, tFailed, tRet, tTouched,
                ppc, pPath, pCalls, pRet >>

\* The variables of the Polyline call alone.
polyVars == << ppc, pPath, pCalls, pRet >>

filterVars == << fpc, fPoints, fDeflated, fMatrix, fInflated >>

configVars == << cClient, cPrev, cLast, cCalls >>

repeatVars == << rRound, rFirst >>

serveVars == << hCap, hSlots, hpc, hProducer, hUsed, hStatus, hSeen >>

multiMapVars == << mM, mCreated, mRequested, mLast, mCalls >>

vars ==
    << stitchVars, getVars, tableVars, filterVars, configVars, repeatVars,
       serveVars, multiMapVars >>

\* What the actions of one part leave unchanged.
notStitch ==
    << getVars, tableVars, filterVars, configVars, repeatVars, serveVars, multiMapVars >>
notGet ==
    << stitchVars, tableVars, filterVars, configVars, repeatVars, serveVars, multiMapVars >>
notTable ==
    << stitchVars, getVars, filterVars, configVars, repeatVars, serveVars, multiMapVars >>
notFilter ==
    << stitchVars, getVars, tableVars, configVars, repeatVars, serveVars, multiMapVars >>
notConfig ==
    << stitchVars, getVars, tableVars, filterVars, repeatVars, serveVars, multiMapVars >>
notServe ==
    << stitchVars, getVars, tableVars, filterVars, configVars, repeatVars,
       multiMapVars >>
notMultiMap ==
    << stitchVars, getVars, tableVars, filterVars, configVars, repeatVars,
       serveVars >>

(***************************************************************************)
(* Helpers on sequences.                                                   *)
(***************************************************************************)
Range(s) == { s[i] : i \in 1..Len(s) }

RECURSIVE Flatten(_)
Flatten(ss) == IF ss = << >> THEN << >> ELSE Head(ss) \o Flatten(Tail(ss))

SetMin(S) == CHOOSE x \in S : \A y \in S : x <= y
SetMax(S) == CHOOSE x \in S : \A y \in S : x >= y

\* The integers lo, lo+1, ..., hi-1 as a sequence (Go: indices[lo:hi]).
IndexSeq(lo, hi) == [ k \in 1..(hi - lo) |-> lo + k - 1 ]

(***************************************************************************)
(* The client and the table configuration.                                 *)
(***************************************************************************)
\* NewClient(host): the settings before any option is applied.
NewClient(host) ==
    [ host         |-> host,
      useCache     |-> FALSE,
      cacheSize    |-> 0,
      removeEmpty  |-> FALSE,
      snapRadius   |-> 0,
      scaleFactor  |-> 10,      \* tenths: 1.0
      maxTableSize |-> DefaultMaxTableSize ]

\* client.IgnoreEmpty(ignore)
IgnoreEmpty(c, ignore) == [ c EXCEPT !.removeEmpty = ignore ]

\* SnapRadius that stores the radius it rejects.
SnapRadiusStoresAlways(c, radius) == [ c EXCEPT !.snapRadius = radius ]

\* client.SnapRadius(radius): rejected below 0, stored otherwise.
SnapRadius(c, radius) ==
    IF radius < 0 THEN c ELSE [ c EXCEPT !.snapRadius = radius ]

\* client.MaxTableSize(size): rejected below 1, stored otherwise.
MaxTableSize(c, size) ==
    IF size < 1 THEN c ELSE [ c EXCEPT !.maxTableSize = size ]

\* A float64 is written in tenths.  NaN is the float64 that is no number:
\* it is written as a value no number of tenths used here takes, and every
\* ordered comparison with it is false, as in Go.
NaN == -1

\* a <= b on float64
FloatLE(a, b) == a # NaN /\ b # NaN /\ a <= b

\* a > b on float64
FloatGT(a, b) == a # NaN /\ b # NaN /\ a > b

\* client.ScaleFactor(factor), in tenths: rejected when factor <= 0, stored
\* otherwise.
ScaleFactor(c, factor) ==
    IF FloatLE(factor, 0) THEN c ELSE [ c EXCEPT !.scaleFactor = factor ]

\* The error a setter returns: SnapRadius for radius < 0, MaxTableSize for
\* size < 1, ScaleFactor for factor <= 0; IgnoreEmpty returns nothing.
SetterFails(op, arg) ==
    \/ op = "SnapRadius" /\ arg < 0
    \/ op = "MaxTableSize" /\ arg < 1
    \/ op = "ScaleFactor" /\ FloatLE(arg, 0)

\* Table: cfg := &tableConfig{parallelRuns: 16}
NewTableConfig ==
    [ withDistance     |-> FALSE,
      withDuration     |-> FALSE,
      parallelRuns     |-> DefaultParallelRuns,
      withApproachCurb |-> FALSE,
      withExclude      |-> << >> ]

\* ParallelRuns(runs): stored only when positive.
ParallelRuns(cfg, runs) ==
    IF runs > 0 THEN [ cfg EXCEPT !.parallelRuns = runs ] ELSE cfg

WithDistance(cfg) == [ cfg EXCEPT !.withDistance = TRUE ]
WithDuration(cfg) == [ cfg EXCEPT !.withDuration = TRUE ]

(***************************************************************************)
(* The planner.                                                            *)
(***************************************************************************)
\* handleUnroutablePoints that leaves out the points it should replace.
handleUnroutablePointsDrop(in) == SelectSeq(in, LAMBDA point : Len(point) = 2)

\* handleUnroutablePoints: a point without exactly two coordinates becomes
\* the unroutable point, in place.
handleUnroutablePoints(in) ==
    [ i \in 1..Len(in) |-> IF Len(in[i]) = 2 THEN in[i] ELSE unroutablePoint ]

\* chunkBy that loses the item after every full block.
RECURSIVE chunkByDropBoundary(_, _)
chunkByDropBoundary(items, chunkSize) ==
    IF chunkSize < Len(items)
    THEN << SubSeq(items, 1, chunkSize) >>
             \o chunkByDropBoundary(SubSeq(items, chunkSize + 2, Len(items)),
                                    chunkSize)
    ELSE << items >>

\* chunkBy: while chunkSize < len(items), cut chunkSize items off the front;
\* what is left (possibly nothing) is the last block.
RECURSIVE chunkBy(_, _)
chunkBy(items, chunkSize) ==
    IF chunkSize < Len(items)
    THEN << SubSeq(items, 1, chunkSize) >>
             \o chunkBy(SubSeq(items, chunkSize + 1, Len(items)), chunkSize)
    ELSE << items >>

\* The annotations of a request: both when neither is asked for.
Annotations(config) ==
    LET isDefault == ~config.withDistance /\ ~config.withDuration
    IN  (IF isDefault \/ config.withDuration THEN << "duration" >> ELSE << >>)
        \o (IF isDefault \/ config.withDistance THEN << "distance" >> ELSE << >>)

\* The path of the request for one pair of blocks, as the record of its parts
\* in the order the code writes them.
RequestPath(c, config, pointChunk1, pointChunk2) ==
    LET resultingChunk == pointChunk1 \o pointChunk2
        n == Len(resultingChunk)
    IN  [ endpoint     |-> "table",
          points       |-> resultingChunk,
          annotations  |-> Annotations(config),
          approaches   |-> IF config.withApproachCurb
                           THEN [ i \in 1..n |-> "curb" ] ELSE << >>,
          exclude      |-> config.withExclude,
          scale_factor |-> IF c.scaleFactor # 10 THEN << c.scaleFactor >> ELSE << >>,
          radiuses     |-> IF c.snapRadius > 0
                           THEN [ i \in 1..n |-> c.snapRadius ] ELSE << >>,
          sources      |-> IndexSeq(0, Len(pointChunk1)),
          destinations |-> IndexSeq(Len(pointChunk1), n) ]

\* tableRequests that skips the pairs of a block with itself.
tableRequestsNoDiagonal(c, config, points) ==
    LET pointChunks == chunkBy(handleUnroutablePoints(points), c.maxTableSize)
        g == Len(pointChunks)
        all == [ k \in 1..(g * g) |->
                   LET p1 == (k - 1) \div g
                       p2 == (k - 1) % g
                   IN  [ row    |-> p1,
                         column |-> p2,
                         path   |-> RequestPath(c, config, pointChunks[p1 + 1],
                                                pointChunks[p2 + 1]) ] ]
    IN  IF g = 1 THEN all ELSE SelectSeq(all, LAMBDA r : r.row # r.column)

\* tableRequests: one request per ordered pair of blocks, row-major.
tableRequests(c, config, points) ==
    LET pointChunks == chunkBy(handleUnroutablePoints(points), c.maxTableSize)
        g == Len(pointChunks)
    IN  [ k \in 1..(g * g) |->
            LET p1 == (k - 1) \div g
                p2 == (k - 1) % g
            IN  [ row    |-> p1,
                  column |-> p2,
                  path   |-> RequestPath(c, config, pointChunks[p1 + 1],
                                         pointChunks[p2 + 1]) ] ]


(***************************************************************************)
(* The backend's table service, as the client sees it: the matrix of the   *)
(* sources (rows) against the destinations (columns) of the path, one      *)
(* matrix per annotation asked for.                                        *)
(***************************************************************************)
DistanceOf(p, q) == 10000 + (p[1] % 97) * 100 + (q[1] % 97)
DurationOf(p, q) == 20000 + (p[1] % 97) * 100 + (q[1] % 97)

BackendTable(path) ==
    LET cell(f(_, _)) ==
            [ x \in 1..Len(path.sources) |->
                [ y \in 1..Len(path.destinations) |->
                    f(path.points[path.sources[x] + 1],
                      path.points[path.destinations[y] + 1]) ] ]
        has(a) == \E i \in 1..Len(path.annotations) : path.annotations[i] = a
    IN  [ Code      |-> "Ok",
          Message   |-> "",
          Distances |-> IF has("distance") THEN cell(DistanceOf) ELSE << >>,
          Durations |-> IF has("duration") THEN cell(DurationOf) ELSE << >> ]

\* Table's task: tableResp.row = req.row; tableResp.column = req.column
Stamp(tableResp, req) ==
    [ Code      |-> tableResp.Code,
      Message   |-> tableResp.Message,
      Distances |-> tableResp.Distances,
      Durations |-> tableResp.Durations,
      row       |-> req.row,
      column    |-> req.column ]

(***************************************************************************)
(* Stitching.                                                              *)
(***************************************************************************)
\* The order of sort.Slice in mergeRequests: by row, then by column.
ResponseLess(a, b) ==
    IF a.row = b.row THEN a.column < b.column ELSE a.row < b.row

RECURSIVE InsertSorted(_, _)
InsertSorted(r, s) ==
    IF s = << >> THEN << r >>
    ELSE IF ResponseLess(r, Head(s)) THEN << r >> \o s
    ELSE << Head(s) >> \o InsertSorted(r, Tail(s))

\* A sort that leaves the responses in arrival order.
SortResponsesNot(responses) == responses

\* sort.Slice(responses, ...). The keys (row, column) of one call's responses
\* are pairwise different, so the sorted order is unique.
\* (The sorted tail and, in MergeLoop, the loop's state are bound through a
\* one-element set, so that each is computed once.)
RECURSIVE SortResponses(_)
SortResponses(responses) ==
    IF responses = << >> THEN << >>
    ELSE CHOOSE sorted \in { InsertSorted(Head(responses), tail) :
                                tail \in { SortResponses(Tail(responses)) } } : TRUE

\* A pass that keeps one row count for both matrices, the durations' one.
MergeStepSharedRows(st, res) ==
    IF st.panicked THEN st
    ELSE IF res.row # st.subRow
    THEN [ st EXCEPT !.subRow    = st.subRow + 1,
                     !.disIndex  = st.disIndex + st.durRows,
                     !.durIndex  = st.durIndex + st.durRows,
                     !.Distances = st.Distances \o res.Distances,
                     !.Durations = st.Durations \o res.Durations ]
    ELSE IF \/ st.disIndex + Len(res.Distances) > Len(st.Distances)
            \/ st.durIndex + Len(res.Durations) > Len(st.Durations)
    THEN [ st EXCEPT !.panicked = TRUE ]
    ELSE [ st EXCEPT
             !.Distances = [ k \in 1..Len(st.Distances) |->
                 IF k > st.disIndex /\ k <= st.disIndex + Len(res.Distances)
                 THEN st.Distances[k] \o res.Distances[k - st.disIndex]
                 ELSE st.Distances[k] ],
             !.Durations = [ k \in 1..Len(st.Durations) |->
                 IF k > st.durIndex /\ k <= st.durIndex + Len(res.Durations)
                 THEN st.Durations[k] \o res.Durations[k - st.durIndex]
                 ELSE st.Durations[k] ],
             !.disRows = Len(res.Durations),
             !.durRows = Len(res.Durations) ]

\* One pass of mergeRequests' loop over responses[1:]. st holds merged's two
\* matrices and the loop's counters; panicked records an index out of range.
MergeStep(st, res) ==
    IF st.panicked THEN st
    ELSE IF res.row # st.subRow
    THEN [ st EXCEPT !.subRow    = st.subRow + 1,
                     !.disIndex  = st.disIndex + st.disRows,
                     !.durIndex  = st.durIndex + st.durRows,
                     !.Distances = st.Distances \o res.Distances,
                     !.Durations = st.Durations \o res.Durations ]
    ELSE IF \/ st.disIndex + Len(res.Distances) > Len(st.Distances)
            \/ st.durIndex + Len(res.Durations) > Len(st.Durations)
    THEN [ st EXCEPT !.panicked = TRUE ]
    ELSE [ st EXCEPT
             !.Distances = [ k \in 1..Len(st.Distances) |->
                 IF k > st.disIndex /\ k <= st.disIndex + Len(res.Distances)
                 THEN st.Distances[k] \o res.Distances[k - st.disIndex]
                 ELSE st.Distances[k] ],
             !.Durations = [ k \in 1..Len(st.Durations) |->
                 IF k > st.durIndex /\ k <= st.durIndex + Len(res.Durations)
                 THEN st.Durations[k] \o res.Durations[k - st.durIndex]
                 ELSE st.Durations[k] ],
             !.disRows = Len(res.Distances),
             !.durRows = Len(res.Durations) ]

RECURSIVE MergeLoop(_, _)
MergeLoop(st, rest) ==
    IF rest = << >> THEN st
    ELSE CHOOSE merged \in { MergeLoop(MergeStep(s, Head(rest)), Tail(rest)) : s \in { st } } : TRUE

\* mergeRequests: sort, start from the first response, fold in the others.
\* An empty list panics on responses[0].
mergeRequests(responses) ==
    LET nothing == [ Distances |-> << >>, Durations |-> << >>, panicked |-> TRUE ]
        merge(sorted) ==
              MergeLoop([ Distances |-> sorted[1].Distances,
                          Durations |-> sorted[1].Durations,
                          subRow |-> 0, disRows |-> 0, disIndex |-> 0,
                          durRows |-> 0, durIndex |-> 0, panicked |-> FALSE ],
                        Tail(sorted))
        st == CHOOSE merged \in { merge(sorted) : sorted \in { SortResponses(responses) } } : TRUE
    IN  IF responses = << >> THEN nothing
        ELSE [ Distances |-> st.Distances, Durations |-> st.Durations,
               panicked |-> st.panicked ]

(***************************************************************************)
(* Errors.  typed: the value is an osrm.Error (made by NewError), so the    *)
(* assertion err.(Error) succeeds; input: its IsInputError().              *)
(***************************************************************************)
NoErr == [ kind |-> "nil", typed |-> FALSE, input |-> FALSE ]
PlainErr(kind) == [ kind |-> kind, typed |-> FALSE, input |-> FALSE ]
NewError(kind, isInput) == [ kind |-> kind, typed |-> TRUE, input |-> isInput ]

\* e, ok := err.(Error); ok && e.IsInputError()
IsInputError(err) == err.typed /\ err.input

(***************************************************************************)
(* The LRU cache (hashicorp/golang-lru): a list of entries, most recently  *)
(* used first.                                                             *)
(***************************************************************************)
\* key = fmt.Sprintf("%x", sha1.Sum([]byte(uri))): one key per uri.
CacheKey(uri) == << "sha1", uri >>

CacheKeys(cache) == { cache[i].key : i \in 1..Len(cache) }

CacheValue(cache, key) ==
    cache[CHOOSE i \in 1..Len(cache) : cache[i].key = key].value

\* The cache without the entry of key.
CacheWithout(cache, key) == SelectSeq(cache, LAMBDA e : e.key # key)

\* cache.Get that does not move the entry to the front.
lruGetNoTouch(cache, key) ==
    IF key \in CacheKeys(cache)
    THEN [ ok |-> TRUE, value |-> CacheValue(cache, key), cache |-> cache ]
    ELSE [ ok |-> FALSE, value |-> "nil", cache |-> cache ]

\* cache.Get(key): a hit moves the entry to the front.
lruGet(cache, key) ==
    IF key \in CacheKeys(cache)
    THEN [ ok    |-> TRUE,
           value |-> CacheValue(cache, key),
           cache |-> << [ key |-> key, value |-> CacheValue(cache, key) ] >>
                       \o CacheWithout(cache, key) ]
    ELSE [ ok |-> FALSE, value |-> "nil", cache |-> cache ]

\* A cache that holds one entry less than its size.
lruAddEvictsEarly(cache, size, key, value) ==
    LET entry == [ key |-> key, value |-> value ] IN
    IF key \in CacheKeys(cache)
    THEN [ cache |-> << entry >> \o CacheWithout(cache, key), evicted |-> {} ]
    ELSE IF Len(cache) + 1 >= size /\ cache # << >>
    THEN [ cache   |-> << entry >> \o SubSeq(cache, 1, Len(cache) - 1),
           evicted |-> { cache[Len(cache)].key } ]
    ELSE [ cache |-> << entry >> \o cache, evicted |-> {} ]

\* cache.Add(key, value): an existing entry is updated and moved to the
\* front; a new entry is pushed to the front and, when the cache is over its
\* size, the oldest entry is removed.
lruAdd(cache, size, key, value) ==
    LET entry == [ key |-> key, value |-> value ] IN
    IF key \in CacheKeys(cache)
    THEN [ cache |-> << entry >> \o CacheWithout(cache, key), evicted |-> {} ]
    ELSE IF Len(cache) + 1 > size
    THEN [ cache   |-> << entry >> \o SubSeq(cache, 1, Len(cache) - 1),
           evicted |-> { cache[Len(cache)].key } ]
    ELSE [ cache |-> << entry >> \o cache, evicted |-> {} ]

\* WithCache(maxItems): useCache is set; lru.New refuses a size below 1 and
\* the cache stays nil (cacheSize 0 stands for the nil cache).
WithCache(c, maxItems) ==
    [ c EXCEPT !.useCache = TRUE,
               !.cacheSize = IF maxItems >= 1 THEN maxItems ELSE 0 ]

\* DefaultClient(host, useCache)
DefaultClient(host, useCache) ==
    IF useCache THEN WithCache(NewClient(host), DefaultCacheSize)
    ELSE NewClient(host)

(***************************************************************************)
(* The transport: what one httpClient.Do and the reading of its body can   *)
(* give.                                                                   *)
(***************************************************************************)
Statuses == { StatusOK, StatusBadRequest, 500 }

\* Do fails.
DoError == [ doErr |-> TRUE, status |-> 0, body |-> "nil",
             readOk |-> FALSE, closeOk |-> FALSE ]

Answer(status, body, readOk, closeOk) ==
    [ doErr |-> FALSE, status |-> status, body |-> body,
      readOk |-> readOk, closeOk |-> closeOk ]

\* A complete answer with status 200.
IsOkAnswer(t) == ~t.doErr /\ t.status = StatusOK /\ t.readOk

\* url.Parse of the host and of the uri (and the building of the request
\* from the joined URL) succeed.  A path built by getPath parses; a uri given
\* to Get is any text.
HostParses(host) == host # "%bad"
UriParses(uri) == IF uri.endpoint = "" THEN uri.text # ":" ELSE TRUE

\* handleErrorStatus that takes every error status for bad input.
handleErrorStatusAllInput(t) ==
    IF ~t.readOk THEN PlainErr("read")
    ELSE NewError("input", TRUE)

\* handleErrorStatus(resp): the body is read; 400 is an input error, any
\* other status is not; a failed read returns the read error as it is.
handleErrorStatus(t) ==
    IF ~t.readOk THEN PlainErr("read")
    ELSE IF t.status = StatusBadRequest THEN NewError("input", TRUE)
    ELSE NewError("response", FALSE)

\* get's cache lookup: the code under "if c.useCache" before the request.
\* looked: the cache was read; panicked: the cache is nil.
getLookup(c, cache, uri) ==
    IF ~c.useCache
    THEN [ hit |-> FALSE, data |-> "nil", cache |-> cache, looked |-> FALSE,
           panicked |-> FALSE ]
    ELSE IF c.cacheSize = 0
    THEN [ hit |-> FALSE, data |-> "nil", cache |-> cache, looked |-> FALSE,
           panicked |-> TRUE ]
    ELSE LET r == lruGet(cache, CacheKey(uri))
         IN  [ hit |-> r.ok, data |-> r.value, cache |-> r.cache, looked |-> TRUE,
               panicked |-> FALSE ]

\* A get that stores what it read of the body also when the read failed.
getFetchStoresPartial(c, uri, t) ==
    IF ~HostParses(c.host) \/ ~UriParses(uri)
    THEN [ data |-> "nil", err |-> PlainErr("url"), called |-> FALSE, store |-> FALSE ]
    ELSE IF t.doErr
    THEN [ data |-> "nil", err |-> PlainErr("transport"), called |-> TRUE,
           store |-> FALSE ]
    ELSE IF t.status # StatusOK
    THEN [ data |-> "nil", err |-> handleErrorStatus(t), called |-> TRUE,
           store |-> FALSE ]
    ELSE IF ~t.readOk
    THEN [ data |-> "partial", err |-> PlainErr("read"), called |-> TRUE,
           store |-> c.useCache ]
    ELSE [ data |-> t.body,
           err |-> IF t.closeOk THEN NoErr ELSE PlainErr("close"),
           called |-> TRUE, store |-> c.useCache ]

\* get after a missed lookup, up to the read of the body: what it returns,
\* whether the transport was called, and whether it goes on to store the data.
getFetch(c, uri, t) ==
    IF ~HostParses(c.host) \/ ~UriParses(uri)
    THEN [ data |-> "nil", err |-> PlainErr("url"), called |-> FALSE, store |-> FALSE ]
    ELSE IF t.doErr
    THEN [ data |-> "nil", err |-> PlainErr("transport"), called |-> TRUE,
           store |-> FALSE ]
    ELSE IF t.status # StatusOK
    THEN [ data |-> "nil", err |-> handleErrorStatus(t), called |-> TRUE,
           store |-> FALSE ]
    ELSE IF ~t.readOk
    THEN [ data |-> "partial", err |-> PlainErr("read"), called |-> TRUE,
           store |-> FALSE ]
    ELSE [ data |-> t.body,
           err |-> IF t.closeOk THEN NoErr ELSE PlainErr("close"),
           called |-> TRUE, store |-> c.useCache ]

\* get that looks the cache up but never stores what it fetched.
getNoStore(c, cache, uri, t) ==
    LET l == getLookup(c, cache, uri)
        f == getFetch(c, uri, t)
    IN  IF l.panicked
        THEN [ data |-> "nil", err |-> NoErr, cache |-> cache, called |-> FALSE,
               looked |-> FALSE, stored |-> FALSE, evicted |-> {}, panicked |-> TRUE ]
        ELSE IF l.hit
        THEN [ data |-> l.data, err |-> NoErr, cache |-> l.cache, called |-> FALSE,
               looked |-> TRUE, stored |-> FALSE, evicted |-> {}, panicked |-> FALSE ]
        ELSE [ data |-> f.data, err |-> f.err, cache |-> l.cache, called |-> f.called,
               looked |-> l.looked, stored |-> FALSE, evicted |-> {},
               panicked |-> FALSE ]

\* get that skips the transport call on a client without a cache.
getNoCallUncached(c, cache, uri, t) ==
    IF c.useCache THEN getNoStore(c, cache, uri, t)
    ELSE [ data |-> "nil", err |-> NoErr, cache |-> cache, called |-> FALSE,
           looked |-> FALSE, stored |-> FALSE, evicted |-> {}, panicked |-> FALSE ]

\* get(uri), run without interruption: the lookup, the fetch and the store.
get(c, cache, uri, t) ==
    LET l == getLookup(c, cache, uri)
        f == getFetch(c, uri, t)
        a == lruAdd(l.cache, c.cacheSize, CacheKey(uri), f.data)
    IN  IF l.panicked
        THEN [ data |-> "nil", err |-> NoErr, cache |-> cache, called |-> FALSE,
               looked |-> FALSE, stored |-> FALSE, evicted |-> {}, panicked |-> TRUE ]
        ELSE IF l.hit
        THEN [ data |-> l.data, err |-> NoErr, cache |-> l.cache, called |-> FALSE,
               looked |-> TRUE, stored |-> FALSE, evicted |-> {}, panicked |-> FALSE ]
        ELSE IF f.store
        THEN [ data |-> f.data, err |-> f.err, cache |-> a.cache, called |-> TRUE,
               looked |-> l.looked, stored |-> TRUE, evicted |-> a.evicted,
               panicked |-> FALSE ]
        ELSE [ data |-> f.data, err |-> f.err, cache |-> l.cache, called |-> f.called,
               looked |-> l.looked, stored |-> FALSE, evicted |-> {},
               panicked |-> FALSE ]

(***************************************************************************)
(* The parts of the model that a specification does not run stay idle.     *)
(***************************************************************************)
NoMerged == [ Distances |-> << >>, Durations |-> << >>, panicked |-> FALSE ]

\* No stitching run.
StitchIdle ==
    /\ spc = "idle"
    /\ sPoints = << >>
    /\ sClient = NewClient("")
    /\ sConfig = NewTableConfig
    /\ sChunks = << >>
    /\ sRequests = << >>
    /\ sLeft = {}
    /\ sResponses = << >>
    /\ sMerged = NoMerged

NoPlan == [ originalLength |-> 0, deflatedIndices |-> << >>, requests |-> << >>, panicked |-> FALSE ]
NoRet == [ returned |-> FALSE, panicked |-> FALSE, distances |-> << >>, durations |-> << >>, err |-> NoErr ]

\* A polyline string, as the sequence of the deltas it encodes; ok: the bytes
\* decode.  The empty string encodes no coordinates.
EmptyPolyline == [ ok |-> TRUE, deltas |-> << >> ]
NoPolyRet == [ returned |-> FALSE, geometry |-> EmptyPolyline, legs |-> << >>, err |-> NoErr ]

\* No Table call.
TableIdle ==
    /\ tpc = "idle"
    /\ tClient = NewClient("")
    /\ tConfig = NewTableConfig
    /\ tPoints = << >>
    /\ tPlan = NoPlan
    /\ tTask = << >>
    /\ tGuard = 0
    /\ tOut = << >>
    /\ tClosed = FALSE
    /\ tResults = << >>
    /\ tCache = << >>
    /\ tReqCount = << >>
    /\ tFailed = {}
    /\ tRet = NoRet
    /\ tTouched = FALSE
    /\ ppc = "idle"
    /\ pPath = << >>
    /\ pCalls = 0
    /\ pRet = NoPolyRet

NoDeflated == [ deflated |-> << >>, indices |-> << >>, panicked |-> FALSE ]
NoInflated == [ matrix |-> << >>, panicked |-> FALSE ]

\* No removal of empty points.
FilterIdle ==
    /\ fpc = "idle"
    /\ fPoints = << >>
    /\ fDeflated = NoDeflated
    /\ fMatrix = << >>
    /\ fInflated = NoInflated

NoSetterCall == [ op |-> "", arg |-> 0, failed |-> FALSE ]

\* No setter call.
ConfigIdle ==
    /\ cClient = NewClient("")
    /\ cPrev = NewClient("")
    /\ cLast = NoSetterCall
    /\ cCalls = 0

\* The Table call, if any, is the client's first.
RepeatIdle ==
    /\ rRound = 1
    /\ rFirst = NoRet

\* No request has reached the HTTP runner.
ServeIdle ==
    /\ hCap = 0
    /\ hSlots = 0
    /\ hpc = << >>
    /\ hProducer = 0
    /\ hUsed = << >>
    /\ hStatus = << >>
    /\ hSeen = << >>

\* No MultiMap.
MultiMapIdle ==
    /\ mM = {}
    /\ mCreated = << >>
    /\ mRequested = {}
    /\ mLast = << >>
    /\ mCalls = 0

(***************************************************************************)
(* Sequential Get calls on one client.                                     *)
(***************************************************************************)
\* The uris given to Get; ":" does not parse as a URL.
RawUri(text) == [ endpoint |-> "", text |-> text ]
Uris == { RawUri("/a"), RawUri("/b"), RawUri("/c"), RawUri(":") }
Bodies == { "b1", "b2" }
Hosts == { "http://osrm", "%bad" }

Transports ==
    { DoError }
    \cup { Answer(StatusOK, b, TRUE, ok) : b \in Bodies, ok \in BOOLEAN }
    \cup { Answer(StatusOK, "b1", FALSE, TRUE) }
    \cup { Answer(st, "b1", ok, TRUE) : st \in Statuses \ { StatusOK }, ok \in BOOLEAN }

Clients ==
    { NewClient(h) : h \in Hosts }
    \cup { WithCache(NewClient(h), k) : h \in Hosts, k \in 0..MaxCache }

NoHist ==
    [ calls      |-> 0,        \* Get calls for the uri
      transport  |-> 0,        \* transport calls for the uri (the server's reqCount)
      answered   |-> TRUE,     \* every call not served by the cache got a complete 200
      first      |-> "nil",    \* the bytes of the first complete 200 answer
      evicted    |-> FALSE ]   \* the uri's entry has been evicted

NoLast == [ uri |-> RawUri(""), data |-> "nil", err |-> NoErr, t |-> DoError,
            called |-> FALSE, hit |-> FALSE, panicked |-> FALSE ]

\* No Get call.
GetIdle ==
    /\ gClient = NewClient("")
    /\ gCache = << >>
    /\ gHist = << >>
    /\ gLast = NoLast
    /\ gCalls = 0
    /\ gCacheOps = [ reads |-> 0, writes |-> 0 ]
    /\ gUsed = << >>

GetInit ==
    /\ gClient \in Clients
    /\ gCache = << >>
    /\ gHist = [ u \in Uris |-> NoHist ]
    /\ gLast = NoLast
    /\ gCalls = 0
    /\ gCacheOps = [ reads |-> 0, writes |-> 0 ]
    /\ gUsed = [ u \in Uris |-> 0 ]
    /\ StitchIdle
    /\ TableIdle
    /\ FilterIdle
    /\ ConfigIdle
    /\ RepeatIdle
    /\ ServeIdle
    /\ MultiMapIdle

\* c.Get(uri), the transport answering t if it is called.
GetStep(uri, t) ==
    /\ ~gLast.panicked
    /\ LET r == get(gClient, gCache, uri, t)
           h == gHist[uri]
           uriOf(key) == CHOOSE u \in Uris : CacheKey(u) = key
       IN  /\ gCache' = r.cache
           /\ gLast' = [ uri |-> uri, data |-> r.data, err |-> r.err, t |-> t,
                         called |-> r.called, hit |-> r.looked /\ ~r.called /\ r.err = NoErr,
                         panicked |-> r.panicked ]
           /\ gHist' = [ u \in Uris |->
                 IF u = uri
                 THEN [ calls     |-> h.calls + 1,
                        transport |-> h.transport + (IF r.called THEN 1 ELSE 0),
                        answered  |-> h.answered
                                        /\ (gLast'.hit \/ (r.called /\ IsOkAnswer(t))),
                        first     |-> IF h.first = "nil" /\ r.called /\ IsOkAnswer(t)
                                      THEN t.body ELSE h.first,
                        evicted   |-> h.evicted ]
                 ELSE [ gHist[u] EXCEPT
                          !.evicted = @ \/ (\E k \in r.evicted : uriOf(k) = u) ] ]
           /\ gCacheOps' = [ reads  |-> gCacheOps.reads + (IF r.looked THEN 1 ELSE 0),
                             writes |-> gCacheOps.writes + (IF r.stored THEN 1 ELSE 0) ]
    /\ gCalls' = gCalls + 1
    /\ UNCHANGED gClient
    /\ UNCHANGED notGet

Get(uri, t) ==
    /\ gCalls < MaxCalls
    /\ GetStep(uri, t)
    /\ UNCHANGED gUsed

GetNext == \E uri \in Uris, t \in Transports : Get(uri, t)

SpecGet == GetInit /\ [][GetNext]_vars

(***************************************************************************)
(* Properties of get.                                                      *)
(***************************************************************************)
\* The last call reached the backend and the backend's status was st.
LastAnswered(st) == gLast.called /\ ~gLast.t.doErr /\ gLast.t.status = st

\* C6 as stated: a get whose response has status 400 returns an error flagged
\* as user input, one with any other non-200 status an error flagged as not
\* user input, and neither returns a body as data.
C6_StatusDecidesClass ==
    /\ LastAnswered(StatusBadRequest) =>
         gLast.err # NoErr /\ IsInputError(gLast.err) /\ gLast.data = "nil"
    /\ \A st \in Statuses \ { StatusOK, StatusBadRequest } :
         LastAnswered(st) =>
           gLast.err # NoErr /\ ~IsInputError(gLast.err) /\ gLast.data = "nil"

\* C6 (amended): a get whose response has status 400 and a readable body
\* returns an error flagged as user input; with any other non-200 status, or
\* when the body of an error response cannot be read, it returns an error
\* that is not flagged as user input; no such get returns a body as data.
C6_StatusAndReadDecideClass ==
    \A st \in Statuses \ { StatusOK } :
        LastAnswered(st) =>
            /\ gLast.err # NoErr
            /\ gLast.data = "nil"
            /\ IsInputError(gLast.err) <=> (st = StatusBadRequest /\ gLast.t.readOk)
            /\ ~gLast.t.readOk => gLast.err = PlainErr("read")

\* C6's case: a get answered 400 with a readable body has returned an input
\* error.
C6_Witness ==
    /\ LastAnswered(StatusBadRequest)
    /\ gLast.t.readOk
    /\ IsInputError(gLast.err)

\* The client has a cache (caching switched on with a capacity of at least 1).
CachingClient == gClient.useCache /\ gClient.cacheSize >= 1

\* C7: on a caching client, sequential Get calls for one path against a
\* backend that answers 200 make exactly one transport call, and every call
\* after the first returns the bytes of the first answer, as long as the
\* path's entry has not been evicted.
C7_OneTransportCallPerCachedPath ==
    CachingClient =>
        \A u \in Uris :
            gHist[u].calls >= 1 /\ gHist[u].answered /\ ~gHist[u].evicted =>
                /\ gHist[u].transport = 1
                /\ gLast.uri = u /\ gHist[u].calls >= 2 =>
                     /\ gLast.data = gHist[u].first
                     /\ gLast.err = NoErr
                     /\ ~gLast.called

\* C7's case: three calls for one path, one transport call, the last call
\* served with the first answer's bytes.
C7_Witness ==
    /\ CachingClient
    /\ \E u \in Uris :
         /\ gHist[u].calls = 3
         /\ gHist[u].answered
         /\ gHist[u].transport = 1
         /\ gLast.uri = u
         /\ gLast.data = gHist[u].first
         /\ gLast.data \in Bodies

\* C8 as stated: without caching every Get call makes a transport call and
\* the cache is neither read nor written.
C8_EveryCallReachesTransport ==
    ~gClient.useCache =>
        /\ \A u \in DOMAIN gHist : gHist[u].transport = gHist[u].calls
        /\ gCacheOps.reads = 0
        /\ gCacheOps.writes = 0

\* C8 (amended): without caching every Get call whose host and path parse as
\* URLs makes exactly one transport call (k calls give k transport calls), a
\* call whose host or path does not parse makes none, and the cache is
\* neither read nor written.
C8_EveryParsedCallReachesTransport ==
    ~gClient.useCache =>
        /\ \A u \in DOMAIN gHist :
             gHist[u].transport =
                 IF HostParses(gClient.host) /\ UriParses(u) THEN gHist[u].calls ELSE 0
        /\ gCacheOps.reads = 0
        /\ gCacheOps.writes = 0
        /\ gCache = << >>

\* C8's case: three calls for one path without caching, three transport calls.
C8_Witness ==
    /\ ~gClient.useCache
    /\ \E u \in DOMAIN gHist : gHist[u].calls = 3 /\ gHist[u].transport = 3

\* The transport's answer is one of the failures before the body is stored:
\* a transport error, a status other than 200, a body that cannot be read.
FailsBeforeStore(t) == t.doErr \/ t.status # StatusOK \/ ~t.readOk

\* C32: a get that fails with a transport error, a non-200 status or a body
\* read error returns an error and leaves the cache as it was, entries and
\* their order; a get for the same path that follows it calls the transport
\* again.
C32_FailedGetLeavesCache ==
    [][ /\ gLast'.called /\ FailsBeforeStore(gLast'.t) =>
             /\ gLast'.err # NoErr
             /\ gCache' = gCache
        /\ gLast.called /\ FailsBeforeStore(gLast.t) /\ gLast'.uri = gLast.uri =>
             gLast'.called ]_vars

\* C32's case: on a caching client that holds an entry, two gets for
\* another path have both called the transport and the second has failed.
C32_Witness ==
    /\ CachingClient
    /\ gCache # << >>
    /\ gLast.called
    /\ FailsBeforeStore(gLast.t)
    /\ gLast.err # NoErr
    /\ gHist[gLast.uri].calls = 2
    /\ gHist[gLast.uri].transport = 2
    /\ CacheKey(gLast.uri) \notin CacheKeys(gCache)

\* C18 as stated: on a client configured with cache capacity 0 every get
\* reaches the transport and returns the transport's response, and nothing
\* is stored.
C18_CapacityZeroIsNoCaching ==
    gClient.useCache /\ gClient.cacheSize = 0 /\ gCalls >= 1 =>
        /\ ~gLast.panicked
        /\ HostParses(gClient.host) /\ UriParses(gLast.uri) => gLast.called
        /\ gLast.called /\ IsOkAnswer(gLast.t) => gLast.data = gLast.t.body
        /\ gCache = << >>
        /\ gCacheOps.writes = 0

(***************************************************************************)
(* Sequential Get calls on a caching client whose every transport call is  *)
(* answered with a complete 200: each call reads the cache and, on a miss, *)
(* writes it.                                                              *)
(***************************************************************************)
LruClients == { WithCache(NewClient("http://osrm"), k) : k \in 1..MaxCache }

LruUris == Uris \ { RawUri(":") }

LruInit ==
    /\ gClient \in LruClients
    /\ gCache = << >>
    /\ gHist = [ u \in Uris |-> NoHist ]
    /\ gLast = NoLast
    /\ gCalls = 0
    /\ gCacheOps = [ reads |-> 0, writes |-> 0 ]
    /\ gUsed = [ u \in Uris |-> 0 ]
    /\ StitchIdle
    /\ TableIdle
    /\ FilterIdle
    /\ ConfigIdle
    /\ RepeatIdle
    /\ ServeIdle
    /\ MultiMapIdle

\* c.Get(uri) answered 200 with body when the cache misses: a hit reads the
\* entry, a miss writes it; either way the call is the entry's last use.
GetAnswered(uri, body) ==
    /\ gCalls < MaxLruCalls
    /\ GetStep(uri, Answer(StatusOK, body, TRUE, TRUE))
    /\ gUsed' = [ gUsed EXCEPT ![uri] = gCalls + 1 ]

LruNext == \E uri \in LruUris, body \in Bodies : GetAnswered(uri, body)

SpecLru == LruInit /\ [][LruNext]_vars

\* The uris whose entries were used most recently, at most k of them.
MostRecentlyUsed(k) ==
    { u \in LruUris : /\ gUsed[u] > 0
                      /\ Cardinality({ v \in LruUris : gUsed[v] > gUsed[u] }) < k }

\* C17: with a cache of capacity C >= 1, after any sequence of get calls the
\* cache holds at most C entries, and they are the entries used (read or
\* written) most recently: every eviction removed the least recently used.
C17_CacheHoldsMostRecentlyUsed ==
    /\ Len(gCache) <= gClient.cacheSize
    /\ CacheKeys(gCache) = { CacheKey(u) : u \in MostRecentlyUsed(gClient.cacheSize) }

\* C17's case: capacity 2; /a and /b are stored, /a is read, /c is stored:
\* the entry of /b, not that of /a, is evicted.
C17_Witness ==
    /\ gClient.cacheSize = 2
    /\ gCalls = 4
    /\ gHist[RawUri("/a")].calls = 2
    /\ gHist[RawUri("/a")].transport = 1
    /\ gUsed[RawUri("/a")] = 3
    /\ gUsed[RawUri("/b")] = 2
    /\ gUsed[RawUri("/c")] = 4
    /\ CacheKeys(gCache) = { CacheKey(RawUri("/a")), CacheKey(RawUri("/c")) }

(***************************************************************************)
(* The stitching run: the planner's requests for n routable points, the    *)
(* backend's response to each arriving in some order, then mergeRequests.  *)
(***************************************************************************)
\* n pairwise different routable points.
RoutablePoints(n) == [ i \in 1..n |-> << i, i >> ]

\* n points of which the second is absent (nil) and the third has a single
\* coordinate; the others are routable.
GappedPoints(n) ==
    [ i \in 1..n |-> IF i = 2 THEN << >> ELSE IF i = 3 THEN << 3 >> ELSE << i, i >> ]

TableConfigs ==
    { NewTableConfig, WithDistance(NewTableConfig), WithDuration(NewTableConfig) }

StitchInit ==
    /\ spc = "plan"
    /\ sPoints \in { RoutablePoints(n) : n \in 1..MaxPoints }
                  \cup { GappedPoints(n) : n \in 2..MaxPoints }
    /\ sClient \in { MaxTableSize(NewClient("ok"), size) : size \in 1..MaxBlock }
    /\ sConfig \in TableConfigs
    /\ sChunks = << >>
    /\ sRequests = << >>
    /\ sLeft = {}
    /\ sResponses = << >>
    /\ sMerged = NoMerged
    /\ GetIdle
    /\ TableIdle
    /\ FilterIdle
    /\ ConfigIdle
    /\ RepeatIdle
    /\ ServeIdle
    /\ MultiMapIdle

\* requests, err := c.tableRequests(cfg, points)
Plan ==
    /\ spc = "plan"
    /\ sChunks' = chunkBy(handleUnroutablePoints(sPoints), sClient.maxTableSize)
    /\ sRequests' = tableRequests(sClient, sConfig, sPoints)
    /\ sLeft' = 1..Len(sRequests')
    /\ spc' = "arrive"
    /\ UNCHANGED << sPoints, sClient, sConfig, sResponses, sMerged >>
    /\ UNCHANGED notStitch

ArriveOf(k) ==
    /\ sResponses' = Append(sResponses,
                            Stamp(BackendTable(sRequests[k].path), sRequests[k]))
    /\ sLeft' = sLeft \ {k}
    /\ UNCHANGED << spc, sPoints, sClient, sConfig, sChunks, sRequests, sMerged >>
    /\ UNCHANGED notStitch

\* The next response to arrive is that of the earliest outstanding request.
ArriveFirst ==
    /\ spc = "arrive"
    /\ sLeft # {}
    /\ ArriveOf(SetMin(sLeft))

\* The next response to arrive is that of the latest outstanding request.
ArriveLast ==
    /\ spc = "arrive"
    /\ sLeft # {}
    /\ ArriveOf(SetMax(sLeft))

\* routeResp := mergeRequests(responses)
Stitch ==
    /\ spc = "arrive"
    /\ sLeft = {}
    /\ sMerged' = mergeRequests(sResponses)
    /\ spc' = "stitched"
    /\ UNCHANGED << sPoints, sClient, sConfig, sChunks, sRequests, sLeft, sResponses >>
    /\ UNCHANGED notStitch

StitchNext == Plan \/ ArriveFirst \/ ArriveLast \/ Stitch

SpecStitch == StitchInit /\ [][StitchNext]_vars


(***************************************************************************)
(* Properties of the stitching run.                                        *)
(***************************************************************************)
\* The response that arrived for the block pair (i, j).
ResponseOf(i, j) ==
    CHOOSE res \in Range(sResponses) : res.row = i /\ res.column = j

\* The matrix m is n x n and its cell (r, c) is the cell (r mod b, c mod b)
\* of the block pair (r div b, c div b), sub(i, j) being that pair's matrix.
StitchedFrom(m, n, b, sub(_, _)) ==
    /\ Len(m) = n
    /\ \A r \in 0..(n - 1) :
         /\ Len(m[r + 1]) = n
         /\ \A c \in 0..(n - 1) :
              m[r + 1][c + 1] = sub(r \div b, c \div b)[(r % b) + 1][(c % b) + 1]

\* C2: given one response per block pair, mergeRequests returns the n x n
\* matrix whose cell (r, c) is the cell (r mod b, c mod b) of the response for
\* the block pair (r div b, c div b), for every matrix the responses carry,
\* whatever the arrival order and also with a ragged last block.
C2_StitchPlacesEveryCell ==
    spc = "stitched" =>
        LET n == Len(sPoints)
            b == sClient.maxTableSize
            subDis(i, j) == ResponseOf(i, j).Distances
            subDur(i, j) == ResponseOf(i, j).Durations
        IN  /\ ~sMerged.panicked
            /\ ~sConfig.withDuration \/ sConfig.withDistance
                 => StitchedFrom(sMerged.Distances, n, b, subDis)
            /\ ~sConfig.withDistance \/ sConfig.withDuration
                 => StitchedFrom(sMerged.Durations, n, b, subDur)

\* C2's case: three points in blocks of two (a ragged last block), the
\* responses stitched after arriving in an order that is not the planned one.
C2_Witness ==
    /\ spc = "stitched"
    /\ Len(sPoints) = 3
    /\ sClient.maxTableSize = 2
    /\ sResponses # SortResponses(sResponses)
    /\ Len(sMerged.Distances) = 3

\* The n x n matrix of f over the points as the requests carry them.
MatrixOver(f(_, _), points) ==
    [ r \in 1..Len(points) |-> [ c \in 1..Len(points) |-> f(points[r], points[c]) ] ]

\* C29: with ignore-empty off and one annotation asked for, so that every
\* block response carries one of the two matrices, the stitching completes
\* for every grid and returns the full n x n matrix of the kind that is
\* present and an empty matrix of the kind that is absent.
C29_SingleKindStitches ==
    spc = "stitched" /\ (sConfig.withDistance # sConfig.withDuration) =>
        LET points == handleUnroutablePoints(sPoints)
        IN  /\ ~sMerged.panicked
            /\ sConfig.withDistance =>
                 /\ sMerged.Distances = MatrixOver(DistanceOf, points)
                 /\ sMerged.Durations = << >>
            /\ sConfig.withDuration =>
                 /\ sMerged.Durations = MatrixOver(DurationOf, points)
                 /\ sMerged.Distances = << >>

\* C29's case: three points in blocks of two, four responses that carry
\* distances only, stitched to a 3 x 3 distance matrix and no durations.
C29_Witness ==
    /\ spc = "stitched"
    /\ sConfig.withDistance
    /\ ~sConfig.withDuration
    /\ Len(sResponses) = 4
    /\ \A k \in 1..4 : sResponses[k].Durations = << >> /\ sResponses[k].Distances # << >>
    /\ Len(sMerged.Distances) = 3
    /\ sMerged.Durations = << >>

\* C9: for n >= 1 points and block size b >= 1 the planner produces exactly
\* ceil(n/b)^2 requests, exactly one for each ordered pair of blocks.
C9_OneRequestPerBlockPair ==
    spc # "plan" /\ Len(sPoints) >= 1 =>
        LET n == Len(sPoints)
            b == sClient.maxTableSize
            g == (n + b - 1) \div b
        IN  /\ Len(sRequests) = g * g
            /\ \A i, j \in 0..(g - 1) :
                 Cardinality({ k \in 1..Len(sRequests) :
                                 sRequests[k].row = i /\ sRequests[k].column = j }) = 1

\* C9's case: 3 points and a block size of 2 give 4 requests.
C9_Witness ==
    /\ spc # "plan"
    /\ Len(sPoints) = 3
    /\ sClient.maxTableSize = 2
    /\ Len(sRequests) = 4

\* C10: chunkBy splits n >= 1 items into contiguous blocks in the original
\* order, each of length between 1 and the maximum block size; concatenating
\* the blocks gives back the list, so the lengths sum to n.
C10_ChunksPartitionInOrder ==
    spc # "plan" /\ Len(sPoints) >= 1 =>
        /\ Flatten(sChunks) = handleUnroutablePoints(sPoints)
        /\ Len(Flatten(sChunks)) = Len(sPoints)
        /\ \A i \in 1..Len(sChunks) :
             Len(sChunks[i]) >= 1 /\ Len(sChunks[i]) <= sClient.maxTableSize

\* C10's case: a list cut into more than one block, the last one shorter.
C10_Witness ==
    /\ spc # "plan"
    /\ Len(sChunks) >= 2
    /\ Len(sChunks[Len(sChunks)]) < Len(sChunks[1])

\* The points of block i (from 0) of the planner's input, a point without two
\* coordinates standing as the unroutable point.
BlockPoints(i) ==
    LET b == sClient.maxTableSize
        lo == i * b
        hi == IF lo + b < Len(sPoints) THEN lo + b ELSE Len(sPoints)
    IN  [ k \in 1..(hi - lo) |->
            IF Len(sPoints[lo + k]) = 2 THEN sPoints[lo + k] ELSE unroutablePoint ]

\* C11: in every planned request for the block pair (i, j) the coordinate
\* list is the points of block i in order followed by those of block j in
\* order, a point without two coordinates replaced in place by the unroutable
\* point and never dropped; the sources are 0..|block i|-1 and the
\* destinations |block i|..|block i|+|block j|-1.
C11_RequestListsRowThenColumnBlock ==
    spc # "plan" =>
        \A k \in 1..Len(sRequests) :
            LET req == sRequests[k]
                bi == BlockPoints(req.row)
                bj == BlockPoints(req.column)
            IN  /\ req.path.points = bi \o bj
                /\ Len(req.path.points) = Len(bi) + Len(bj)
                /\ req.path.sources = [ x \in 1..Len(bi) |-> x - 1 ]
                /\ req.path.destinations = [ y \in 1..Len(bj) |-> Len(bi) + y - 1 ]

\* C11's case: three points of which two have no two coordinates, in blocks of
\* two: the request of the block pair (0, 1) lists the unroutable point twice.
C11_Witness ==
    /\ spc # "plan"
    /\ sPoints = GappedPoints(3)
    /\ \E k \in 1..Len(sRequests) :
         /\ sRequests[k].row = 0
         /\ sRequests[k].column = 1
         /\ sRequests[k].path.points = << << 1, 1 >>, unroutablePoint, unroutablePoint >>
         /\ sRequests[k].path.sources = << 0, 1 >>
         /\ sRequests[k].path.destinations = << 2 >>


(***************************************************************************)
(* Removing and restoring empty points.                                    *)
(***************************************************************************)
\* deflateZeroes' test of one point,
\*   len(point) == 0 || (point[0] == 0 && point[1] == 0),
\* reads point[1] of a point whose only coordinate is 0: index out of range.
PointPanics(point) == Len(point) = 1 /\ point[1] = 0

\* A point that deflateZeroes drops: missing or (0, 0).
IsZeroPoint(point) ==
    Len(point) = 0 \/ (point[1] = 0 /\ Len(point) >= 2 /\ point[2] = 0)

\* deflateZeroes that drops the missing points only and keeps (0, 0).
deflateZeroesKeepOrigin(points) ==
    LET kept == { i \in 1..Len(points) : Len(points[i]) # 0 }
        RECURSIVE Ascending(_)
        Ascending(S) == IF S = {} THEN << >>
                        ELSE << SetMin(S) >> \o Ascending(S \ { SetMin(S) })
        order == Ascending(kept)
    IN  [ deflated |-> [ k \in 1..Len(order) |-> points[order[k]] ],
          indices  |-> [ k \in 1..Len(order) |-> order[k] - 1 ],
          panicked |-> FALSE ]

\* deflateZeroes: the points that are kept, in order, and their indices
\* (from 0) in the original list.
deflateZeroes(points) ==
    LET kept == { i \in 1..Len(points) : ~IsZeroPoint(points[i]) }
        RECURSIVE Ascending(_)
        Ascending(S) == IF S = {} THEN << >>
                        ELSE << SetMin(S) >> \o Ascending(S \ { SetMin(S) })
        order == Ascending(kept)
    IN  IF \E i \in 1..Len(points) : PointPanics(points[i])
        THEN [ deflated |-> << >>, indices |-> << >>, panicked |-> TRUE ]
        ELSE [ deflated |-> [ k \in 1..Len(order) |-> points[order[k]] ],
               indices  |-> [ k \in 1..Len(order) |-> order[k] - 1 ],
               panicked |-> FALSE ]

\* inflateZeroes that copies matrix[j][i] where it should copy matrix[i][j].
inflateZeroesTransposed(matrix, indices, length) ==
    LET k == Len(indices)
        fits == /\ Len(matrix) >= k
                /\ \A i \in 1..k : Len(matrix[i]) >= k
        pos(o) == CHOOSE i \in 1..k : indices[i] = o
        kept == Range(indices)
    IN  IF ~fits THEN [ matrix |-> << >>, panicked |-> TRUE ]
        ELSE [ matrix |->
                 [ r \in 1..length |-> [ c \in 1..length |->
                     IF (r - 1) \in kept /\ (c - 1) \in kept
                     THEN matrix[pos(c - 1)][pos(r - 1)] ELSE 0 ] ],
               panicked |-> FALSE ]

\* inflateZeroes: a length x length matrix of zeroes with matrix[i][j] copied
\* to the cell (indices[i], indices[j]); reading a cell the matrix does not
\* have panics.
inflateZeroes(matrix, indices, length) ==
    LET k == Len(indices)
        fits == /\ Len(matrix) >= k
                /\ \A i \in 1..k : Len(matrix[i]) >= k
        pos(o) == CHOOSE i \in 1..k : indices[i] = o
        kept == Range(indices)
    IN  IF ~fits THEN [ matrix |-> << >>, panicked |-> TRUE ]
        ELSE [ matrix |->
                 [ r \in 1..length |-> [ c \in 1..length |->
                     IF (r - 1) \in kept /\ (c - 1) \in kept
                     THEN matrix[pos(r - 1)][pos(c - 1)] ELSE 0 ] ],
               panicked |-> FALSE ]

(***************************************************************************)
(* One removal and restoration: deflateZeroes on a list of points, then    *)
(* inflateZeroes on a matrix over the points that were kept.               *)
(***************************************************************************)
\* The points of the lists: missing (nil), the origin, a single coordinate
\* (zero or not), a zero longitude only, and a routable point.
FilterPointKinds ==
    { << >>, << 0, 0 >>, << 0 >>, << 7 >>, << 0, 5 >>, << 1, 1 >> }

FilterPointLists ==
    UNION { [ 1..n -> FilterPointKinds ] : n \in 0..MaxFilterPoints }

\* The m x m matrices given to inflateZeroes: pairwise different cells, with
\* and without a zero among them.
FilterMatrices(m) ==
    { [ i \in 1..m |-> [ j \in 1..m |-> base * 100 + (i - 1) * 10 + (j - 1) ] ] :
        base \in 0..1 }

FilterInit ==
    /\ fpc = "deflate"
    /\ fPoints \in FilterPointLists
    /\ fDeflated = NoDeflated
    /\ fMatrix = << >>
    /\ fInflated = NoInflated
    /\ StitchIdle
    /\ GetIdle
    /\ TableIdle
    /\ ConfigIdle
    /\ RepeatIdle
    /\ ServeIdle
    /\ MultiMapIdle

\* points, deflatedIndices = deflateZeroes(points)
Deflate ==
    /\ fpc = "deflate"
    /\ fDeflated' = deflateZeroes(fPoints)
    /\ fpc' = IF fDeflated'.panicked THEN "panicked" ELSE "inflate"
    /\ UNCHANGED << fPoints, fMatrix, fInflated >>
    /\ UNCHANGED notFilter

\* inflateZeroes(matrix, deflatedIndices, originalLength)
Inflate(matrix) ==
    /\ fpc = "inflate"
    /\ fMatrix' = matrix
    /\ fInflated' = inflateZeroes(matrix, fDeflated.indices, Len(fPoints))
    /\ fpc' = IF fInflated'.panicked THEN "panicked" ELSE "done"
    /\ UNCHANGED << fPoints, fDeflated >>
    /\ UNCHANGED notFilter

FilterNext ==
    \/ Deflate
    \/ \E matrix \in FilterMatrices(Len(fDeflated.deflated)) : Inflate(matrix)

SpecFilter == FilterInit /\ [][FilterNext]_vars

\* C12: for every point list P of length n and every m x m matrix M over the
\* m points deflateZeroes keeps, inflateZeroes(M, indices, n) is an n x n
\* matrix whose cell (indices[i], indices[j]) is M[i][j] for all kept i, j
\* and whose every cell in the row or the column of a removed point is 0.
C12_InflateRestoresAroundRemoved ==
    /\ ~fInflated.panicked
    /\ fpc = "done" =>
         LET n == Len(fPoints)
             R == fInflated.matrix
             idx == fDeflated.indices
             removed == { o \in 0..(n - 1) : o \notin Range(idx) }
         IN  /\ Len(R) = n
             /\ \A r \in 1..n : Len(R[r]) = n
             /\ \A i, j \in 1..Len(idx) : R[idx[i] + 1][idx[j] + 1] = fMatrix[i][j]
             /\ \A o \in removed, x \in 0..(n - 1) :
                  R[o + 1][x + 1] = 0 /\ R[x + 1][o + 1] = 0

\* C12's case: the first of three points is removed and the 2 x 2 matrix of
\* the other two is restored to 3 x 3 with a zero first row and column.
C12_Witness ==
    /\ fpc = "done"
    /\ fPoints = << << 0, 0 >>, << 1, 1 >>, << 0, 5 >> >>
    /\ fMatrix = << << 100, 101 >>, << 110, 111 >> >>
    /\ fInflated.matrix = << << 0, 0, 0 >>, << 0, 100, 101 >>, << 0, 110, 111 >> >>

\* C13 as stated: deflateZeroes removes exactly the points that are missing
\* or equal to (0, 0) and keeps all others in their relative order; the index
\* list is strictly increasing, as long as the kept list, and its k-th entry
\* is the original position of the k-th kept point; an empty input gives two
\* empty outputs.
C13_DeflateRemovesExactlyEmptyPoints ==
    fpc # "deflate" =>
        LET idx == fDeflated.indices
            kept == fDeflated.deflated
        IN  /\ ~fDeflated.panicked
            /\ Range(idx) = { i - 1 : i \in { x \in 1..Len(fPoints) :
                                 fPoints[x] # << >> /\ fPoints[x] # << 0, 0 >> } }
            /\ \A k \in 1..(Len(idx) - 1) : idx[k] < idx[k + 1]
            /\ Len(kept) = Len(idx)
            /\ \A k \in 1..Len(idx) : kept[k] = fPoints[idx[k] + 1]
            /\ fPoints = << >> => kept = << >> /\ idx = << >>

(***************************************************************************)
(* Setter calls on a client from NewClient.                                *)
(***************************************************************************)
\* The arguments given to a setter: from below its limit up to MaxSetting
\* (a scale factor in tenths, or NaN).
SetterArgs(op) ==
    IF op = "ScaleFactor"
    THEN { 10 * k - 5 : k \in 0..MaxSetting } \cup { 0, 10, NaN }
    ELSE -1..MaxSetting

ConfigInit ==
    /\ cClient = NewClient("http://osrm")
    /\ cPrev = NewClient("http://osrm")
    /\ cLast = NoSetterCall
    /\ cCalls = 0
    /\ StitchIdle
    /\ GetIdle
    /\ TableIdle
    /\ FilterIdle
    /\ RepeatIdle
    /\ ServeIdle
    /\ MultiMapIdle

\* The bookkeeping of a setter call.
SetterCalled(op, arg) ==
    /\ cCalls < MaxSetterCalls
    /\ cCalls' = cCalls + 1
    /\ cPrev' = cClient
    /\ cLast' = [ op |-> op, arg |-> arg, failed |-> SetterFails(op, arg) ]
    /\ UNCHANGED notConfig

SetSnapRadius(radius) ==
    /\ cClient' = SnapRadius(cClient, radius)
    /\ SetterCalled("SnapRadius", radius)

SetMaxTableSize(size) ==
    /\ cClient' = MaxTableSize(cClient, size)
    /\ SetterCalled("MaxTableSize", size)

SetScaleFactor(factor) ==
    /\ cClient' = ScaleFactor(cClient, factor)
    /\ SetterCalled("ScaleFactor", factor)

SetIgnoreEmpty(ignore) ==
    /\ cClient' = IgnoreEmpty(cClient, ignore)
    /\ SetterCalled("IgnoreEmpty", IF ignore THEN 1 ELSE 0)

ConfigNext ==
    \/ \E radius \in SetterArgs("SnapRadius") : SetSnapRadius(radius)
    \/ \E size \in SetterArgs("MaxTableSize") : SetMaxTableSize(size)
    \/ \E factor \in SetterArgs("ScaleFactor") : SetScaleFactor(factor)
    \/ \E ignore \in BOOLEAN : SetIgnoreEmpty(ignore)

SpecConfig == ConfigInit /\ [][ConfigNext]_vars

\* C23: SnapRadius with a negative radius, ScaleFactor with a factor <= 0 and
\* MaxTableSize with a size < 1 each return an error and leave every setting
\* unchanged; each accepted value is stored, returns no error and changes
\* only its own setting.
C23_SettersRejectOrStore ==
    cCalls >= 1 =>
        LET arg == cLast.arg IN
        /\ cLast.op = "SnapRadius" =>
             IF arg < 0 THEN cLast.failed /\ cClient = cPrev
             ELSE ~cLast.failed /\ cClient = [ cPrev EXCEPT !.snapRadius = arg ]
        /\ cLast.op = "ScaleFactor" =>
             IF FloatLE(arg, 0) THEN cLast.failed /\ cClient = cPrev
             ELSE ~cLast.failed /\ cClient = [ cPrev EXCEPT !.scaleFactor = arg ]
        /\ cLast.op = "MaxTableSize" =>
             IF arg < 1 THEN cLast.failed /\ cClient = cPrev
             ELSE ~cLast.failed /\ cClient = [ cPrev EXCEPT !.maxTableSize = arg ]

\* C23's case: a radius of 2 has been stored and SnapRadius(-1) is rejected:
\* the radius is still 2.
C23_Witness ==
    /\ cLast.op = "SnapRadius"
    /\ cLast.arg = -1
    /\ cLast.failed
    /\ cPrev.snapRadius = 2
    /\ cClient.snapRadius = 2

\* The in-flight capacity Table uses when ParallelRuns(runs) is among its
\* options: make(chan struct{}, cfg.parallelRuns).
GuardCapacity(runs) == ParallelRuns(NewTableConfig, runs).parallelRuns

\* The settings other than the scale factor: snap radius >= 0, max block
\* size >= 1, in-flight capacity >= 1 and 16 unless a positive value is given.
OtherSettingsValid ==
    /\ cClient.snapRadius >= 0
    /\ cClient.maxTableSize >= 1
    /\ \A runs \in -1..MaxRuns :
          /\ GuardCapacity(runs) >= 1
          /\ runs <= 0 => GuardCapacity(runs) = DefaultParallelRuns
          /\ runs > 0 => GuardCapacity(runs) = runs

\* C34: after any sequence of IgnoreEmpty, SnapRadius, ScaleFactor and
\* MaxTableSize calls on a client from NewClient, and for any ParallelRuns
\* option, the settings satisfy snap radius >= 0, scale factor > 0, max
\* block size >= 1 and in-flight capacity >= 1 (16 unless a positive value
\* was given).
C34_SettingsStayValid ==
    /\ OtherSettingsValid
    /\ FloatGT(cClient.scaleFactor, 0)

\* C34's failing case: ScaleFactor(NaN) has returned no error and the
\* client's scale factor is NaN.
C34_NaNScaleFactorStored ==
    /\ cLast.op = "ScaleFactor"
    /\ cLast.arg = NaN
    /\ ~cLast.failed
    /\ cClient.scaleFactor = NaN

(***************************************************************************)
(* One Table call.  Every request gets a task (a goroutine):               *)
(*   start -> acquired -> (inflight ->) published -> done                  *)
(* acquired: its value is in the guard channel; inflight: the cache missed *)
(* and the transport has been called; published: its result is in out.     *)
(* A step that touches one shared object (guard, cache, transport, out) is *)
(* taken together with the task-local code that follows it.                *)
(***************************************************************************)
\* What the backend's body decodes to: the table of the path, bytes that are
\* no JSON, or a response whose code is not "Ok".
TableBodies == { "table", "garbage", "notok" }

TableTransports ==
    { DoError }
    \cup { Answer(StatusOK, b, TRUE, TRUE) : b \in TableBodies }
    \cup { Answer(StatusBadRequest, "nil", TRUE, TRUE), Answer(500, "nil", TRUE, TRUE) }

\* An error as Table's aggregation reads it: whether it is an osrm.Error that
\* is an input error.  The message is not kept.
ErrClass(err) ==
    [ kind |-> "error", typed |-> IsInputError(err), input |-> IsInputError(err) ]

\* A task that takes every decoded body for a good response.
TaskResultAnyCode(i, data, err) ==
    IF err # NoErr THEN [ i |-> i, err |-> ErrClass(err) ]
    ELSE IF data = "garbage" THEN [ i |-> i, err |-> ErrClass(PlainErr("decode")) ]
    ELSE [ i |-> i, err |-> NoErr ]

\* The task's code after c.get: what it sends on out for the body and error
\* that get returned.  A result is [i, err]: err = NoErr stands for the
\* decoded response of request i, stamped with its row and column.
TaskResult(i, data, err) ==
    IF err # NoErr THEN [ i |-> i, err |-> ErrClass(err) ]
    ELSE IF data = "garbage" THEN [ i |-> i, err |-> ErrClass(PlainErr("decode")) ]
    ELSE IF data # "table" THEN [ i |-> i, err |-> ErrClass(PlainErr("code")) ]
    ELSE [ i |-> i, err |-> NoErr ]

\* A guard that admits a task whatever the channel holds.
GuardHasRoomAlways(n, capacity) == TRUE

\* guard <- struct{}{} can proceed: the channel is not full.
GuardHasRoom(n, capacity) == n < capacity

Requests == tPlan.requests
Tasks == 1..Len(Requests)

\* The tasks that have acquired a slot and not yet released it.
Holding == { i \in Tasks : tTask[i] \in { "acquired", "inflight", "published" } }

\* The number of results so far that are errors.
Failures ==
    Len(SelectSeq(tResults \o tOut, LAMBDA r : r.err # NoErr))

\* hasUserErrs of Table's loop over errs: every pass tests errs[0].
HasUserErrs(errs) == IsInputError(errs[1])

\* Table's return value once all results are in.
TableReturn(c, plan, results) ==
    LET errs == SelectSeq(results, LAMBDA r : r.err # NoErr)
        oks == SelectSeq(results, LAMBDA r : r.err = NoErr)
        responses == [ k \in 1..Len(oks) |->
                         Stamp(BackendTable(plan.requests[oks[k].i].path),
                               plan.requests[oks[k].i]) ]
        \* What follows the stitching.
        finish(routeResp) ==
            LET dis == inflateZeroes(routeResp.Distances, plan.deflatedIndices,
                                     plan.originalLength)
                dur == inflateZeroes(routeResp.Durations, plan.deflatedIndices,
                                     plan.originalLength)
            IN  IF routeResp.panicked \/ (c.removeEmpty /\ (dis.panicked \/ dur.panicked))
                THEN [ returned |-> FALSE, panicked |-> TRUE, distances |-> << >>,
                       durations |-> << >>, err |-> NoErr ]
                ELSE IF c.removeEmpty
                THEN [ returned |-> TRUE, panicked |-> FALSE, distances |-> dis.matrix,
                       durations |-> dur.matrix, err |-> NoErr ]
                ELSE [ returned |-> TRUE, panicked |-> FALSE,
                       distances |-> routeResp.Distances,
                       durations |-> routeResp.Durations, err |-> NoErr ]
    IN  IF Len(errs) > 0
        THEN [ returned |-> TRUE, panicked |-> FALSE, distances |-> << >>,
               durations |-> << >>,
               err |-> NewError("aggregate", HasUserErrs([ k \in 1..Len(errs) |-> errs[k].err ])) ]
        ELSE CHOOSE ret \in { finish(routeResp) :
                 routeResp \in { mergeRequests(rs) : rs \in { responses } } } : TRUE


\* The calls.  Each is a client, a list of points and the options of a
\* Table call, which a Polyline call with the same points may follow:
\*  - n pairwise different routable points, no cache;
\*  - two equal points in blocks of one (all four requests have the same
\*    path) on a client with a cache;
\*  - no points, lists with an origin point or a nil point, and one and three
\*    routable points, on a client with a cache, followed by Polyline;
\*  - lists with empty points on a client that ignores empty points, one of
\*    them with nothing but empty points, for each choice of annotations.
TableCalls ==
    { [ points |-> RoutablePoints(n),
        client |-> MaxTableSize(NewClient("http://osrm"), TableBlock),
        config |-> ParallelRuns(NewTableConfig, runs),
        polyline |-> FALSE ] :
        n \in 0..MaxTablePoints, runs \in 0..MaxRuns }
    \cup
    { [ points |-> << << 1, 1 >>, << 1, 1 >> >>,
        client |-> MaxTableSize(WithCache(NewClient("http://osrm"), MaxCache), 1),
        config |-> ParallelRuns(NewTableConfig, MaxRuns),
        polyline |-> FALSE ] }
    \cup
    { [ points |-> pts,
        client |-> WithCache(NewClient("http://osrm"), MaxCache),
        config |-> NewTableConfig,
        polyline |-> TRUE ] :
        pts \in { << >>, << << 0, 0 >>, << 1, 1 >> >>, << << >>, << 1, 1 >> >>,
                  RoutablePoints(1), RoutablePoints(3) } }
    \cup
    { [ points |-> pts,
        client |-> IgnoreEmpty(NewClient("http://osrm"), TRUE),
        config |-> cfg,
        polyline |-> FALSE ] :
        pts \in { << << 0, 0 >>, << 1, 1 >>, << >>, << 2, 2 >> >>,
                  << << 0, 0 >>, << >> >> },
        cfg \in { NewTableConfig, WithDistance(NewTableConfig),
                  WithDuration(NewTableConfig) } }

\* Table's code before the tasks start: the empty check, the removal of
\* empty points and the planning.
TablePlan(c, config, points) ==
    LET d == IF c.removeEmpty THEN deflateZeroes(points)
             ELSE [ deflated |-> points, indices |-> << >>, panicked |-> FALSE ]
    IN  [ originalLength  |-> Len(points),
          deflatedIndices |-> d.indices,
          requests        |-> IF d.panicked THEN << >>
                              ELSE tableRequests(c, config, d.deflated),
          panicked        |-> d.panicked ]

TableInit ==
    /\ tpc = "call"
    /\ \E call \in TableCalls :
         /\ tPoints = call.points
         /\ tClient = call.client
         /\ tConfig = call.config
         /\ ppc = IF call.polyline THEN "wait" ELSE "idle"
    /\ pPath = << >>
    /\ pCalls = 0
    /\ pRet = NoPolyRet
    /\ tTouched = FALSE
    /\ tPlan = NoPlan
    /\ tTask = << >>
    /\ tGuard = 0
    /\ tOut = << >>
    /\ tClosed = FALSE
    /\ tResults = << >>
    /\ tCache = << >>
    /\ tReqCount = << >>
    /\ tFailed = {}
    /\ tRet = NoRet
    /\ StitchIdle
    /\ GetIdle
    /\ FilterIdle
    /\ ConfigIdle
    /\ RepeatIdle
    /\ ServeIdle
    /\ MultiMapIdle

\* Table without its check for an empty list of points.
TableCallNoEmptyCheck ==
    /\ tpc = "call"
    /\ IF FALSE
       THEN /\ tpc' = "returned"
            /\ tRet' = [ NoRet EXCEPT !.returned = TRUE, !.err = PlainErr("empty") ]
            /\ UNCHANGED << tPlan, tTask, tReqCount >>
       ELSE /\ tPlan' = TablePlan(tClient, tConfig, tPoints)
            /\ tpc' = IF tPlan'.panicked THEN "panicked" ELSE "drain"
            /\ tTask' = [ i \in 1..Len(tPlan'.requests) |-> "start" ]
            /\ tReqCount' = [ i \in 1..Len(tPlan'.requests) |-> 0 ]
            /\ UNCHANGED tRet
    /\ UNCHANGED << tClient, tConfig, tPoints, tGuard, tOut, tClosed, tResults, tCache,
                    tFailed >>
    /\ UNCHANGED tTouched
    /\ UNCHANGED polyVars
    /\ UNCHANGED notTable

\* Table up to the start of the tasks: no points is an error; otherwise the
\* requests are planned, the channels made and one task started per request.
TableCall ==
    /\ tpc = "call"
    /\ IF Len(tPoints) = 0
       THEN /\ tpc' = "returned"
            /\ tRet' = [ NoRet EXCEPT !.returned = TRUE, !.err = PlainErr("empty") ]
            /\ UNCHANGED << tPlan, tTask, tReqCount >>
       ELSE /\ tPlan' = TablePlan(tClient, tConfig, tPoints)
            /\ tpc' = IF tPlan'.panicked THEN "panicked" ELSE "drain"
            /\ tTask' = [ i \in 1..Len(tPlan'.requests) |-> "start" ]
            /\ tReqCount' = [ i \in 1..Len(tPlan'.requests) |-> 0 ]
            /\ UNCHANGED tRet
    /\ UNCHANGED << tClient, tConfig, tPoints, tGuard, tOut, tClosed, tResults, tCache,
                    tFailed >>
    /\ UNCHANGED tTouched
    /\ UNCHANGED polyVars
    /\ UNCHANGED notTable

\* guard <- struct{}{}: blocks while the channel is full.
Acquire(i) ==
    /\ tpc # "panicked"
    /\ tTask[i] = "start"
    /\ GuardHasRoom(tGuard, tConfig.parallelRuns)
    /\ IF tClosed
       THEN tpc' = "panicked" /\ UNCHANGED << tTask, tGuard >>
       ELSE /\ tGuard' = tGuard + 1
            /\ tTask' = [ tTask EXCEPT ![i] = "acquired" ]
            /\ UNCHANGED tpc
    /\ UNCHANGED << tClient, tConfig, tPoints, tPlan, tOut, tClosed, tResults, tCache,
                    tReqCount, tFailed, tRet >>
    /\ UNCHANGED tTouched
    /\ UNCHANGED polyVars
    /\ UNCHANGED notTable

\* A task that sends its result twice.
PublishTwice(i, result) ==
    /\ Len(tOut) < Len(Requests)
    /\ IF tClosed
       THEN tpc' = "panicked" /\ UNCHANGED << tTask, tOut >>
       ELSE /\ tOut' = tOut \o << result, result >>
            /\ tTask' = [ tTask EXCEPT ![i] = "published" ]
            /\ UNCHANGED tpc

\* out <- result: out has room for one result per request; a send on the
\* closed channel panics.
Publish(i, result) ==
    /\ Len(tOut) < Len(Requests)
    /\ IF tClosed
       THEN tpc' = "panicked" /\ UNCHANGED << tTask, tOut >>
       ELSE /\ tOut' = Append(tOut, result)
            /\ tTask' = [ tTask EXCEPT ![i] = "published" ]
            /\ UNCHANGED tpc

\* c.get up to the transport call: a cache hit is decoded and published; a
\* miss goes on to the transport unless the URLs do not parse.
Lookup(i) ==
    /\ tpc # "panicked"
    /\ tTask[i] = "acquired"
    /\ LET l == getLookup(tClient, tCache, Requests[i].path)
           f == getFetch(tClient, Requests[i].path, DoError)
       IN  IF l.panicked
           THEN tpc' = "panicked" /\ UNCHANGED << tTask, tOut, tCache, tReqCount, tFailed >>
           ELSE IF l.hit
           THEN /\ Publish(i, TaskResult(i, l.data, NoErr))
                /\ tCache' = l.cache
                /\ tFailed' = IF l.data = "table" THEN tFailed ELSE tFailed \cup { i }
                /\ UNCHANGED tReqCount
           ELSE IF ~f.called
           THEN /\ Publish(i, TaskResult(i, f.data, f.err))
                /\ tCache' = l.cache
                /\ tFailed' = tFailed \cup { i }
                /\ UNCHANGED tReqCount
           ELSE /\ tTask' = [ tTask EXCEPT ![i] = "inflight" ]
                /\ tReqCount' = [ tReqCount EXCEPT ![i] = @ + 1 ]
                /\ tCache' = l.cache
                /\ UNCHANGED << tpc, tOut, tFailed >>
    /\ UNCHANGED << tClient, tConfig, tPoints, tPlan, tGuard, tClosed, tResults, tRet >>
    /\ tTouched' = (tTouched \/ getLookup(tClient, tCache, Requests[i].path).looked)
    /\ UNCHANGED polyVars
    /\ UNCHANGED notTable

\* The transport returns t: get stores a complete 200 answer when caching
\* and returns; the task decodes and publishes.
\* A task that calls the transport again after a failed call.
RespondRetries(i, t) ==
    /\ tpc # "panicked"
    /\ tTask[i] = "inflight"
    /\ (IsOkAnswer(t) /\ t.body = "table") \/ Failures < MaxFailures
    /\ LET f == getFetch(tClient, Requests[i].path, t)
           a == lruAdd(tCache, tClient.cacheSize, CacheKey(Requests[i].path), f.data)
       IN  /\ tCache' = IF f.store THEN a.cache ELSE tCache
           /\ IF f.err # NoErr /\ tReqCount[i] < 2
              THEN /\ tTask' = [ tTask EXCEPT ![i] = "acquired" ]
                   /\ UNCHANGED << tpc, tOut, tFailed >>
              ELSE /\ Publish(i, TaskResult(i, f.data, f.err))
                   /\ tFailed' = IF IsOkAnswer(t) /\ t.closeOk /\ t.body = "table"
                                 THEN tFailed ELSE tFailed \cup { i }
    /\ UNCHANGED << tClient, tConfig, tPoints, tPlan, tGuard, tClosed, tResults,
                    tReqCount, tRet >>
    /\ UNCHANGED tTouched
    /\ UNCHANGED polyVars
    /\ UNCHANGED notTable

\* A task that reports an error when the key it fetched is in the cache by
\* the time its own answer arrives.
RespondFailsDuplicate(i, t) ==
    /\ tpc # "panicked"
    /\ tTask[i] = "inflight"
    /\ (IsOkAnswer(t) /\ t.body = "table") \/ Failures < MaxFailures
    /\ LET f == getFetch(tClient, Requests[i].path, t)
           a == lruAdd(tCache, tClient.cacheSize, CacheKey(Requests[i].path), f.data)
           dup == CacheKey(Requests[i].path) \in CacheKeys(tCache)
       IN  /\ tCache' = IF f.store THEN a.cache ELSE tCache
           /\ Publish(i, IF dup THEN [ i |-> i, err |-> ErrClass(PlainErr("duplicate")) ]
                         ELSE TaskResult(i, f.data, f.err))
           /\ tFailed' = IF IsOkAnswer(t) /\ t.closeOk /\ t.body = "table"
                         THEN tFailed ELSE tFailed \cup { i }
    /\ UNCHANGED << tClient, tConfig, tPoints, tPlan, tGuard, tClosed, tResults,
                    tReqCount, tRet >>
    /\ UNCHANGED tTouched
    /\ UNCHANGED polyVars
    /\ UNCHANGED notTable

\* The transport's answer to task i, then the rest of c.get and of the task.
Respond(i, t) ==
    /\ tpc # "panicked"
    /\ tTask[i] = "inflight"
    /\ (IsOkAnswer(t) /\ t.body = "table") \/ Failures < MaxFailures
    /\ LET f == getFetch(tClient, Requests[i].path, t)
           a == lruAdd(tCache, tClient.cacheSize, CacheKey(Requests[i].path), f.data)
       IN  /\ tCache' = IF f.store THEN a.cache ELSE tCache
           /\ Publish(i, TaskResult(i, f.data, f.err))
           /\ tFailed' = IF IsOkAnswer(t) /\ t.closeOk /\ t.body = "table"
                         THEN tFailed ELSE tFailed \cup { i }
    /\ UNCHANGED << tClient, tConfig, tPoints, tPlan, tGuard, tClosed, tResults,
                    tReqCount, tRet >>
    /\ UNCHANGED tTouched
    /\ UNCHANGED polyVars
    /\ UNCHANGED notTable

\* A task that ends without taking its value out of the guard channel.
ReleaseKeepsSlot(i) ==
    /\ tpc # "panicked"
    /\ tTask[i] = "published"
    /\ tTask' = [ tTask EXCEPT ![i] = "done" ]
    /\ UNCHANGED << tpc, tClient, tConfig, tPoints, tPlan, tGuard, tOut, tClosed,
                    tResults, tCache, tReqCount, tFailed, tRet >>
    /\ UNCHANGED tTouched
    /\ UNCHANGED polyVars
    /\ UNCHANGED notTable

\* The deferred <-guard: takes a value out of the channel; on the closed and
\* empty channel it returns at once.
Release(i) ==
    /\ tpc # "panicked"
    /\ tTask[i] = "published"
    /\ tGuard > 0 \/ tClosed
    /\ tGuard' = IF tGuard > 0 THEN tGuard - 1 ELSE 0
    /\ tTask' = [ tTask EXCEPT ![i] = "done" ]
    /\ UNCHANGED << tpc, tClient, tConfig, tPoints, tPlan, tOut, tClosed, tResults,
                    tCache, tReqCount, tFailed, tRet >>
    /\ UNCHANGED tTouched
    /\ UNCHANGED polyVars
    /\ UNCHANGED notTable

\* r := <-out, once per request.
Receive ==
    /\ tpc = "drain"
    /\ Len(tResults) < Len(Requests)
    /\ tOut # << >>
    /\ tResults' = Append(tResults, Head(tOut))
    /\ tOut' = Tail(tOut)
    /\ UNCHANGED << tpc, tClient, tConfig, tPoints, tPlan, tTask, tGuard, tClosed,
                    tCache, tReqCount, tFailed, tRet >>
    /\ UNCHANGED tTouched
    /\ UNCHANGED polyVars
    /\ UNCHANGED notTable

\* A caller that returns on the first result that is an error.
ReturnOnFirstError ==
    /\ tpc = "drain"
    /\ \/ Len(tResults) = Len(Requests)
       \/ \E k \in 1..Len(tResults) : tResults[k].err # NoErr
    /\ tRet' = TableReturn(tClient, tPlan, tResults)
    /\ tpc' = IF tRet'.panicked THEN "panicked" ELSE "returned"
    /\ tClosed' = TRUE
    /\ UNCHANGED << tClient, tConfig, tPoints, tPlan, tTask, tGuard, tOut, tResults,
                    tCache, tReqCount, tFailed >>
    /\ UNCHANGED tTouched
    /\ UNCHANGED polyVars
    /\ UNCHANGED notTable

\* All results are in: the aggregate error, or the stitched (and inflated)
\* matrices; the deferred close of guard and out.
Return ==
    /\ tpc = "drain"
    /\ Len(tResults) = Len(Requests)
    /\ tRet' = TableReturn(tClient, tPlan, tResults)
    /\ tpc' = IF tRet'.panicked THEN "panicked" ELSE "returned"
    /\ tClosed' = TRUE
    /\ UNCHANGED << tClient, tConfig, tPoints, tPlan, tTask, tGuard, tOut, tResults,
                    tCache, tReqCount, tFailed >>
    /\ UNCHANGED tTouched
    /\ UNCHANGED polyVars
    /\ UNCHANGED notTable

(***************************************************************************)
(* The Polyline call: one request, made by the caller itself.              *)
(***************************************************************************)
\* The path of the route request: pointsParameter joins the points after
\* handleUnroutablePoints; the query is fixed.
PolylinePath(points) ==
    [ endpoint |-> "route",
      points   |-> handleUnroutablePoints(points),
      query    |-> "overview=simplified&steps=true&annotations=false&continue_straight=false" ]

\* polyline.DecodeCoords: every coordinate is the one before it plus the
\* delta the string carries (coordinates have one dimension here); bytes that
\* do not decode give an error.
RECURSIVE PrefixSums(_, _)
PrefixSums(deltas, from) ==
    IF deltas = << >> THEN << >>
    ELSE << from + Head(deltas) >> \o PrefixSums(Tail(deltas), from + Head(deltas))

DecodeCoords(geometry) ==
    IF geometry.ok THEN [ coords |-> PrefixSums(geometry.deltas, 0), failed |-> FALSE ]
    ELSE [ coords |-> << >>, failed |-> TRUE ]

\* polyline.EncodeCoords: the first coordinate, then every coordinate's
\* difference to the one before it.
EncodeCoords(coords) ==
    [ ok     |-> TRUE,
      deltas |-> [ k \in 1..Len(coords) |->
                     IF k = 1 THEN coords[1] ELSE coords[k] - coords[k - 1] ] ]

\* A leg's coordinates with the steps taken last to first.
LegCoordsReversed(leg) ==
    Flatten([ k \in 1..Len(leg.Steps) |->
                DecodeCoords(leg.Steps[Len(leg.Steps) + 1 - k]).coords ])

\* decodedLegs[i]: the decoded coordinates of the leg's steps, appended in
\* step order.
LegCoords(leg) ==
    Flatten([ k \in 1..Len(leg.Steps) |-> DecodeCoords(leg.Steps[k]).coords ])

\* The bodies of the backend's route service.  "garbage" is no JSON; the
\* others decode to a RouteResponse for the request's points pts:
\*   "route":    code "Ok", one route with a leg between each two points;
\*   "extraleg": as "route" with one leg more;
\*   "badstep":  as "route" with a step geometry that does not decode;
\*   "noroute":  code "Ok" and no route;
\*   "notok":    another code and no route.
PolylineBodies == { "route", "extraleg", "badstep", "garbage", "notok", "noroute" }

RouteResponseOf(body, pts) ==
    LET p == Len(pts)
        step(i, k) == [ ok |-> TRUE, deltas |-> << (pts[i][1] % 7) + k, k >> ]
        broken == [ ok |-> FALSE, deltas |-> << >> ]
        leg(i, bad) == [ Steps |-> << step(i, 1), IF bad THEN broken ELSE step(i, 2) >> ]
        route(n, bad) ==
            [ Geometry |-> [ ok |-> TRUE, deltas |-> [ i \in 1..p |-> pts[i][1] % 7 ] ],
              Legs     |-> [ i \in 1..n |-> leg(i, bad /\ i = n) ] ]
    IN  IF body = "route"
        THEN [ Code |-> "Ok", Message |-> "", Routes |-> << route(p - 1, FALSE) >> ]
        ELSE IF body = "extraleg"
        THEN [ Code |-> "Ok", Message |-> "", Routes |-> << route(p, FALSE) >> ]
        ELSE IF body = "badstep"
        THEN [ Code |-> "Ok", Message |-> "", Routes |-> << route(p - 1, TRUE) >> ]
        ELSE IF body = "noroute"
        THEN [ Code |-> "Ok", Message |-> "", Routes |-> << >> ]
        ELSE [ Code |-> "NoRoute", Message |-> "no route", Routes |-> << >> ]

PolylineTransports ==
    { DoError }
    \cup { Answer(StatusOK, b, TRUE, TRUE) : b \in PolylineBodies }
    \cup { Answer(StatusBadRequest, "nil", TRUE, TRUE) }

\* Polyline after c.get: the error of get, of the decoding or of the code;
\* routeResp.Routes[0] panics when there is no route.  The loop over the
\* route's legs returns the error of the first step that does not decode and
\* panics on decodedLegs[i] for a leg beyond len(points)-1.  Otherwise: the
\* route's geometry and len(points)-1 polylines, the i-th the encoding of the
\* i-th leg's coordinates (of no coordinates when the route has no i-th leg).
PolylineFinish(points, data, err) ==
    LET failed(e) == [ NoPolyRet EXCEPT !.returned = TRUE, !.err = e ]
        resp == RouteResponseOf(data, handleUnroutablePoints(points))
        route == resp.Routes[1]
        n == Len(points) - 1
        undecodable == { i \in 1..Len(route.Legs) :
                           \E k \in 1..Len(route.Legs[i].Steps) :
                               DecodeCoords(route.Legs[i].Steps[k]).failed }
    IN  IF err # NoErr THEN [ pc |-> "returned", ret |-> failed(err) ]
        ELSE IF data = "garbage"
        THEN [ pc |-> "returned", ret |-> failed(PlainErr("decode")) ]
        ELSE IF resp.Code # "Ok"
        THEN [ pc |-> "returned", ret |-> failed(PlainErr("code")) ]
        ELSE IF resp.Routes = << >>
        THEN [ pc |-> "panicked", ret |-> NoPolyRet ]
        ELSE IF \E i \in undecodable : i <= n
        THEN [ pc |-> "returned", ret |-> failed(PlainErr("polyline")) ]
        ELSE IF Len(route.Legs) > n
        THEN [ pc |-> "panicked", ret |-> NoPolyRet ]
        ELSE [ pc |-> "returned",
               ret |-> [ returned |-> TRUE,
                         geometry |-> route.Geometry,
                         legs |-> [ i \in 1..n |->
                                      IF i <= Len(route.Legs)
                                      THEN EncodeCoords(LegCoords(route.Legs[i]))
                                      ELSE EncodeCoords(<< >>) ],
                         err |-> NoErr ] ]

\* Polyline up to the transport call: no points is an error; otherwise the
\* path is built and get looks it up in the cache.
PolylineCall ==
    /\ ppc = "wait"
    /\ tpc = "returned"
    /\ \A i \in Tasks : tTask[i] = "done"
    /\ IF Len(tPoints) = 0
       THEN /\ ppc' = "returned"
            /\ pRet' = [ NoPolyRet EXCEPT !.returned = TRUE, !.err = PlainErr("empty") ]
            /\ UNCHANGED << pPath, pCalls, tCache, tTouched >>
       ELSE LET path == PolylinePath(tPoints)
                l == getLookup(tClient, tCache, path)
                f == getFetch(tClient, path, DoError)
                hit == PolylineFinish(tPoints, l.data, NoErr)
                bad == PolylineFinish(tPoints, f.data, f.err)
            IN  /\ pPath' = << path >>
                /\ tTouched' = (tTouched \/ l.looked)
                /\ IF l.panicked
                   THEN ppc' = "panicked" /\ UNCHANGED << pRet, pCalls, tCache >>
                   ELSE IF l.hit
                   THEN /\ ppc' = hit.pc
                        /\ pRet' = hit.ret
                        /\ tCache' = l.cache
                        /\ UNCHANGED pCalls
                   ELSE IF ~f.called
                   THEN /\ ppc' = bad.pc
                        /\ pRet' = bad.ret
                        /\ tCache' = l.cache
                        /\ UNCHANGED pCalls
                   ELSE /\ ppc' = "inflight"
                        /\ pCalls' = pCalls + 1
                        /\ tCache' = l.cache
                        /\ UNCHANGED pRet
    /\ UNCHANGED << tpc, tClient, tConfig, tPoints, tPlan, tTask, tGuard, tOut, tClosed,
                    tResults, tReqCount, tFailed, tRet >>
    /\ UNCHANGED notTable

\* The transport returns t to Polyline's get, which stores a complete 200
\* answer when caching; Polyline decodes and returns.
PolylineRespond(t) ==
    /\ ppc = "inflight"
    /\ LET f == getFetch(tClient, pPath[1], t)
           a == lruAdd(tCache, tClient.cacheSize, CacheKey(pPath[1]), f.data)
           fin == PolylineFinish(tPoints, f.data, f.err)
       IN  /\ tCache' = IF f.store THEN a.cache ELSE tCache
           /\ ppc' = fin.pc
           /\ pRet' = fin.ret
    /\ UNCHANGED << pPath, pCalls, tTouched >>
    /\ UNCHANGED << tpc, tClient, tConfig, tPoints, tPlan, tTask, tGuard, tOut, tClosed,
                    tResults, tReqCount, tFailed, tRet >>
    /\ UNCHANGED notTable

Next ==
    \/ TableCall
    \/ \E i \in Tasks : Acquire(i)
    \/ \E i \in Tasks : Lookup(i)
    \/ \E i \in Tasks, t \in TableTransports : Respond(i, t)
    \/ \E i \in Tasks : Release(i)
    \/ Receive
    \/ Return
    \/ PolylineCall
    \/ \E t \in PolylineTransports : PolylineRespond(t)

Spec == TableInit /\ [][Next]_vars

\* A transport call that fails and one that answers with the table.
FairTransports == { DoError, Answer(StatusOK, "table", TRUE, TRUE) }

\* One Table call alone, on a client that keeps every point, with a limit on
\* the requests in flight: the grid has fewer, as many and more requests
\* than the limit.
FairInit ==
    /\ TableInit
    /\ ppc = "idle"
    /\ ~tClient.removeEmpty
    /\ tConfig.parallelRuns <= MaxRuns

FairNext ==
    \/ TableCall
    \/ \E i \in Tasks : Acquire(i)
    \/ \E i \in Tasks : Lookup(i)
    \/ \E i \in Tasks : \E t \in FairTransports : Respond(i, t)
    \/ \E i \in Tasks : Release(i)
    \/ Receive
    \/ Return

\* The scheduler runs a goroutine that can take a step: the caller, and
\* among the tasks that can take a step of one kind, one of them.  A
\* transport call returns.  (The tasks are finitely many and none of them
\* loops, so no task is passed over forever.)
Fairness ==
    /\ WF_vars(TableCall)
    /\ WF_vars(Receive)
    /\ WF_vars(Return)
    /\ WF_vars(\E i \in Tasks : Acquire(i))
    /\ WF_vars(\E i \in Tasks : Lookup(i))
    /\ WF_vars(\E i \in Tasks : \E t \in FairTransports : Respond(i, t))
    /\ WF_vars(\E i \in Tasks : Release(i))

FairSpec == FairInit /\ [][FairNext]_vars /\ Fairness

(***************************************************************************)
(* Table calls repeated on one caching client: when a call has returned    *)
(* without an error and its tasks are gone, the caller makes the same call *)
(* again.                                                                  *)
(***************************************************************************)
\* The number of different paths among the requests of a call.
DistinctPaths(c, config, points) ==
    Cardinality({ TablePlan(c, config, points).requests[k].path :
                    k \in 1..Len(TablePlan(c, config, points).requests) })

\* The calls: pairwise different routable points in blocks of TableBlock,
\* and two equal points in blocks of one, on a cache that holds one entry
\* and on a cache that holds every path of the call.
RepeatCallsOf(pts, block) ==
    { [ points |-> pts,
        client |-> MaxTableSize(WithCache(NewClient("http://osrm"), size), block),
        config |-> ParallelRuns(NewTableConfig, MaxRuns) ] :
        size \in { 1, DistinctPaths(MaxTableSize(NewClient("http://osrm"), block),
                                    NewTableConfig, pts) } }

RepeatCalls ==
    UNION { RepeatCallsOf(RoutablePoints(n), TableBlock) : n \in 1..MaxTablePoints }
    \cup RepeatCallsOf(<< << 1, 1 >>, << 1, 1 >> >>, 1)

RepeatInit ==
    /\ tpc = "call"
    /\ \E call \in RepeatCalls :
         /\ tPoints = call.points
         /\ tClient = call.client
         /\ tConfig = call.config
    /\ ppc = "idle"
    /\ pPath = << >>
    /\ pCalls = 0
    /\ pRet = NoPolyRet
    /\ tTouched = FALSE
    /\ tPlan = NoPlan
    /\ tTask = << >>
    /\ tGuard = 0
    /\ tOut = << >>
    /\ tClosed = FALSE
    /\ tResults = << >>
    /\ tCache = << >>
    /\ tReqCount = << >>
    /\ tFailed = {}
    /\ tRet = NoRet
    /\ StitchIdle
    /\ GetIdle
    /\ FilterIdle
    /\ ConfigIdle
    /\ RepeatIdle
    /\ ServeIdle
    /\ MultiMapIdle

\* The caller, with the matrices of a call in hand, calls Table again with
\* the same points and options: the new call starts with new channels and
\* finds the client's cache as the call before left it.
TableAgain ==
    /\ rRound < MaxTableRounds
    /\ tpc = "returned"
    /\ tRet.err = NoErr
    /\ \A i \in Tasks : tTask[i] = "done"
    /\ rRound' = rRound + 1
    /\ rFirst' = IF rRound = 1 THEN tRet ELSE rFirst
    /\ tpc' = "call"
    /\ tPlan' = NoPlan
    /\ tTask' = << >>
    /\ tGuard' = 0
    /\ tOut' = << >>
    /\ tClosed' = FALSE
    /\ tResults' = << >>
    /\ tReqCount' = << >>
    /\ tFailed' = {}
    /\ tRet' = NoRet
    /\ UNCHANGED << tClient, tConfig, tPoints, tCache, tTouched >>
    /\ UNCHANGED polyVars
    /\ UNCHANGED << stitchVars, getVars, filterVars, configVars >>
    /\ UNCHANGED << serveVars, multiMapVars >>

RepeatNext ==
    \/ TableCall
    \/ \E i \in Tasks : Acquire(i)
    \/ \E i \in Tasks : Lookup(i)
    \/ \E i \in Tasks, t \in FairTransports : Respond(i, t)
    \/ \E i \in Tasks : Release(i)
    \/ Receive
    \/ Return
    \/ TableAgain

SpecRepeat == RepeatInit /\ [][RepeatNext]_vars

(***************************************************************************)
(* Concurrent requests to one HTTP runner.  Every request is served by its *)
(* own ServeHTTP call (a goroutine of the http server) on the one runner:  *)
(*   arrived -> admitted -> produced -> set -> running -> done             *)
(* or arrived -> done when the select finds no free slot.  A step touches  *)
(* one shared object: the maxParallel channel or the runner's IOProducer.  *)
(***************************************************************************)
MaxParallel == 2

MaxRequests == 3

StatusTooManyRequests == 429

StatusInternalServerError == 500

HTTPRequests == 1..MaxRequests

\* NewHTTPRunner: maxParallel = make(chan struct{}, MaxParallel), empty.
ServeInit ==
    /\ hCap \in 0..MaxParallel
    /\ hSlots = 0
    /\ hpc = [ i \in HTTPRequests |-> "arrived" ]
    /\ hProducer = 0
    /\ hUsed = [ i \in HTTPRequests |-> 0 ]
    /\ hStatus = [ i \in HTTPRequests |-> 0 ]
    /\ hSeen = [ i \in HTTPRequests |-> -1 ]
    /\ StitchIdle
    /\ GetIdle
    /\ TableIdle
    /\ FilterIdle
    /\ ConfigIdle
    /\ RepeatIdle
    /\ MultiMapIdle

\* select { case h.maxParallel <- struct{}{}: ... default: http.Error(429) }
Select(i) ==
    /\ hpc[i] = "arrived"
    /\ hSeen' = [ hSeen EXCEPT ![i] = hSlots ]
    /\ IF hSlots < hCap
       THEN /\ hSlots' = hSlots + 1
            /\ hpc' = [ hpc EXCEPT ![i] = "admitted" ]
            /\ UNCHANGED hStatus
       ELSE /\ hStatus' = [ hStatus EXCEPT ![i] = StatusTooManyRequests ]
            /\ hpc' = [ hpc EXCEPT ![i] = "done" ]
            /\ UNCHANGED hSlots
    /\ UNCHANGED << hCap, hProducer, hUsed >>
    /\ UNCHANGED notServe

\* A finish that takes its value out of the channel only after a run that
\* succeeded.
FinishKeepsSlotOnError(i, status) ==
    /\ hStatus' = [ hStatus EXCEPT ![i] = status ]
    /\ hpc' = [ hpc EXCEPT ![i] = "done" ]
    /\ hSlots' = IF status = StatusOK THEN hSlots - 1 ELSE hSlots

\* The end of an admitted ServeHTTP call: the response's status, then the
\* deferred <-h.maxParallel.
Finish(i, status) ==
    /\ hStatus' = [ hStatus EXCEPT ![i] = status ]
    /\ hpc' = [ hpc EXCEPT ![i] = "done" ]
    /\ hSlots' = hSlots - 1

\* producer, err := h.handlerToIOProducer(w, req)
ToIOProducer(i, ok) ==
    /\ hpc[i] = "admitted"
    /\ IF ok
       THEN /\ hpc' = [ hpc EXCEPT ![i] = "produced" ]
            /\ UNCHANGED << hStatus, hSlots >>
       ELSE Finish(i, StatusInternalServerError)
    /\ UNCHANGED << hCap, hProducer, hUsed, hSeen >>
    /\ UNCHANGED notServe

\* h.SetIOProducer(producer): the runner's one IOProducer becomes the one
\* built from request i.
SetIOProducer(i) ==
    /\ hpc[i] = "produced"
    /\ hProducer' = i
    /\ hpc' = [ hpc EXCEPT ![i] = "set" ]
    /\ UNCHANGED << hCap, hSlots, hUsed, hStatus, hSeen >>
    /\ UNCHANGED notServe

\* h.genericRunner.Run(context.Background()) begins: the run takes its
\* input and its writer from the runner's IOProducer.
RunStart(i) ==
    /\ hpc[i] = "set"
    /\ hUsed' = [ hUsed EXCEPT ![i] = hProducer ]
    /\ hpc' = [ hpc EXCEPT ![i] = "running" ]
    /\ UNCHANGED << hCap, hSlots, hProducer, hStatus, hSeen >>
    /\ UNCHANGED notServe

\* Run returns: nil, or an error that is answered with status 500.
RunEnd(i, ok) ==
    /\ hpc[i] = "running"
    /\ Finish(i, IF ok THEN StatusOK ELSE StatusInternalServerError)
    /\ UNCHANGED << hCap, hProducer, hUsed, hSeen >>
    /\ UNCHANGED notServe

ServeNext ==
    \/ \E i \in HTTPRequests : Select(i)
    \/ \E i \in HTTPRequests : \E ok \in BOOLEAN : ToIOProducer(i, ok)
    \/ \E i \in HTTPRequests : SetIOProducer(i)
    \/ \E i \in HTTPRequests : RunStart(i)
    \/ \E i \in HTTPRequests : \E ok \in BOOLEAN : RunEnd(i, ok)

SpecServe == ServeInit /\ [][ServeNext]_vars

(***************************************************************************)
(* Get calls on one MultiMap whose identifiers come from Binarize.         *)
(***************************************************************************)
MaxGets == 3

MaxNumber == 102

\* strconv.Itoa of a number >= 0: its decimal digits.
RECURSIVE Itoa(_)
Itoa(n) == IF n < 10 THEN << n >> ELSE Itoa(n \div 10) \o << n % 10 >>

\* Binarize(number): element i (from 0) is BinaryHelper(strconv.Itoa(i)),
\* whose ID is that string.
Binarize(number) == [ k \in 1..number |-> Itoa(k - 1) ]

\* Binarized.GetIdentifier(number): b[number-1], counted from 0.
GetIdentifier(b, number) == b[number]

\* The identifiers given to Get: those of the numbers 1, 2, 101 and 102.
Identifiers == { GetIdentifier(Binarize(MaxNumber), n) : n \in { 1, 2, 101, 102 } }

\* The indexes given to Get: one or two identifiers.
Tuples ==
    { << a >> : a \in Identifiers } \cup { << a, b >> : a, b \in Identifiers }

\* The bytes Get writes to the hash: for every position i (from 0), the
\* identifier's ID and then strconv.Itoa(i).
RECURSIVE Written(_, _)
Written(identifiers, i) ==
    IF i > Len(identifiers) THEN << >>
    ELSE identifiers[i] \o Itoa(i - 1) \o Written(identifiers, i + 1)

\* index := m.hash.Sum64(): a hash that tells any two byte strings apart.
Sum64(identifiers) == Written(identifiers, 1)

\* m.create(identifiers...): a value made for these identifiers.
create(identifiers) == [ of |-> identifiers ]

NoGet == [ ids |-> << >>, ret |-> create(<< >>) ]

\* NewMultiMap: m.m is empty.
MultiMapInit ==
    /\ mM = {}
    /\ mCreated = [ t \in Tuples |-> 0 ]
    /\ mRequested = {}
    /\ mLast = NoGet
    /\ mCalls = 0
    /\ StitchIdle
    /\ GetIdle
    /\ TableIdle
    /\ FilterIdle
    /\ ConfigIdle
    /\ RepeatIdle
    /\ ServeIdle

\* m.m[index], for an index that is in the map
Stored(index) == (CHOOSE e \in mM : e.index = index).value

\* multiMap.Get(identifiers...)
MultiMapGet(identifiers) ==
    /\ mCalls < MaxGets
    /\ mCalls' = mCalls + 1
    /\ mRequested' = mRequested \cup { identifiers }
    /\ LET index == Sum64(identifiers) IN
       IF \E e \in mM : e.index = index
       THEN /\ mLast' = [ ids |-> identifiers, ret |-> Stored(index) ]
            /\ UNCHANGED << mM, mCreated >>
       ELSE /\ mCreated' = [ mCreated EXCEPT ![identifiers] = @ + 1 ]
            /\ mM' = mM \cup { [ index |-> index, value |-> create(identifiers) ] }
            /\ mLast' = [ ids |-> identifiers, ret |-> create(identifiers) ]
    /\ UNCHANGED notMultiMap

\* multiMap.Length()
Length == Cardinality(mM)

MultiMapNext == \E identifiers \in Tuples : MultiMapGet(identifiers)

SpecMultiMap == MultiMapInit /\ [][MultiMapNext]_vars


(***************************************************************************)
(* Properties of the Table call.                                           *)
(***************************************************************************)
\* The full matrix of the call's points under the cost f: a point without
\* two coordinates stands as the unroutable point; on a client that ignores
\* empty points the rows and columns of the missing and (0, 0) points are 0.
\* A matrix that was not asked for is absent.
FullMatrix(f(_, _), wanted) ==
    LET n == Len(tPoints)
        at(r) == IF Len(tPoints[r]) = 2 THEN tPoints[r] ELSE unroutablePoint
        kept(r) == \/ ~tClient.removeEmpty
                   \/ (tPoints[r] # << >> /\ tPoints[r] # << 0, 0 >>)
    IN  IF ~wanted /\ ~tClient.removeEmpty THEN << >>
        ELSE [ r \in 1..n |-> [ c \in 1..n |->
                 IF kept(r) /\ kept(c) THEN f(at(r), at(c)) ELSE 0 ] ]

TableSucceeded == tRet.returned /\ tRet.err = NoErr

\* The requests of the results, in arrival order.
ArrivalOrder == [ k \in 1..Len(tResults) |-> tResults[k].i ]

\* C1: for every point count and block size, the matrices Table returns are
\* the same whatever the order in which the tasks deliver their results: they
\* are the full distance and duration matrices of the points.
C1_MatricesIndependentOfArrival ==
    TableSucceeded =>
        /\ tRet.distances = FullMatrix(DistanceOf,
                                        tConfig.withDistance \/ ~tConfig.withDuration)
        /\ tRet.durations = FullMatrix(DurationOf,
                                        tConfig.withDuration \/ ~tConfig.withDistance)

\* C1's case: four block results that arrived in an order other than the
\* planned one, stitched into the 3 x 3 matrices.
C1_Witness ==
    /\ TableSucceeded
    /\ Len(tPoints) = 3
    /\ Len(tResults) = 4
    /\ ArrivalOrder # << 1, 2, 3, 4 >>
    /\ ArrivalOrder[1] = 4
    /\ Len(tRet.distances) = 3

\* C3: in every state of a Table call, the tasks that hold an admission slot
\* (acquired and not yet released) are at most the configured capacity, so at
\* most that many transport calls are in flight.
C3_HoldersWithinCapacity ==
    /\ Cardinality(Holding) <= tConfig.parallelRuns
    /\ Cardinality({ i \in Tasks : tTask[i] = "inflight" }) <= tConfig.parallelRuns
    /\ tGuard <= tConfig.parallelRuns

\* C3's case: the capacity is 2 and taken, two transport calls are in flight
\* and another task waits for a slot.
C3_Witness ==
    /\ tConfig.parallelRuns = 2
    /\ Cardinality({ i \in Tasks : tTask[i] = "inflight" }) = 2
    /\ \E i \in Tasks : tTask[i] = "start"

\* C4: if at least one block request of the call failed, Table returns an
\* error with no distance and no duration matrix; matrices are returned only
\* when every planned request succeeded.
C4_AnyFailureFailsTheCall ==
    tRet.returned =>
        /\ tFailed # {} =>
             /\ tRet.err # NoErr
             /\ tRet.distances = << >>
             /\ tRet.durations = << >>
        /\ tRet.err = NoErr =>
             /\ tFailed = {}
             /\ { tResults[k].i : k \in 1..Len(tResults) } = Tasks
             /\ Tasks # {}

\* C4's case: three of four requests succeeded, one failed, and Table has
\* returned an error and no matrix.
C4_Witness ==
    /\ tRet.returned
    /\ Cardinality(tFailed) = 1
    /\ Len(tResults) = 4
    /\ tRet.err # NoErr
    /\ tRet.distances = << >>

\* C5 as stated: if any collected error of the call is a user-input error,
\* the aggregate error Table returns is a user-input error, whatever the
\* other errors are and in whatever order they arrived.
C5_AnyInputErrorClassifiesAggregate ==
    tRet.returned /\ (\E k \in 1..Len(tResults) : IsInputError(tResults[k].err))
        => IsInputError(tRet.err)

\* C14 as stated: on a client that ignores empty points, Table's inflate step
\* completes without failure for every stitched result it receives, also for
\* the absent matrix of an annotation that was not requested.
C14_InflateNeverFails ==
    tClient.removeEmpty => ~tRet.panicked /\ tpc # "panicked"

\* The coordinates carried by the request paths built so far.
TableCoordinates ==
    UNION { Range(tPlan.requests[k].path.points) : k \in 1..Len(tPlan.requests) }
PolylineCoordinates ==
    UNION { Range(pPath[k].points) : k \in 1..Len(pPath) }

\* C15 as stated: no request path built by Table or Polyline carries the
\* coordinates (0, 0) of an origin point, whatever the ignore-empty setting.
C15_OriginNeverSent ==
    << 0, 0 >> \notin TableCoordinates \cup PolylineCoordinates

\* C15, amended: every coordinate a path carries is the unroutable point or
\* a two-coordinate point of the input; a point without two coordinates is
\* never sent as it is; the paths of Table on a client that ignores empty
\* points carry no (0, 0).  (With ignore-empty off, and in Polyline, a (0, 0)
\* point is sent as the coordinates 0,0.)
C15_OriginSentUnlessIgnored ==
    /\ \A q \in TableCoordinates \cup PolylineCoordinates :
         q = unroutablePoint \/ (Len(q) = 2 /\ q \in Range(tPoints))
    /\ tClient.removeEmpty => << 0, 0 >> \notin TableCoordinates
    /\ ~tClient.removeEmpty /\ tPlan.requests # << >> /\ << >> \in Range(tPoints)
         => unroutablePoint \in TableCoordinates
    /\ pPath # << >> /\ << >> \in Range(tPoints)
         => unroutablePoint \in PolylineCoordinates

\* C15's case: on a client that ignores empty points, Table has planned the
\* request for a list with an origin point and a missing point: its path
\* lists the two other points only.
C15_Witness ==
    /\ tClient.removeEmpty
    /\ tPoints = << << 0, 0 >>, << 1, 1 >>, << >>, << 2, 2 >> >>
    /\ Len(tPlan.requests) = 1
    /\ tPlan.requests[1].path.points = << << 1, 1 >>, << 2, 2 >>, << 1, 1 >>, << 2, 2 >> >>

\* C16 as stated: no step of any get replaces the value stored under a key
\* that is in the cache with different bytes, under every interleaving of
\* the tasks and every sequence of backend responses.
C16_StoredValueNeverReplaced ==
    [][ \A key \in CacheKeys(tCache) \cap CacheKeys(tCache') :
          CacheValue(tCache', key) = CacheValue(tCache, key) ]_vars

\* C19: Table and Polyline called with an empty point list each return an
\* error and no result, without building a request, without calling the
\* transport and without touching the cache.
C19_EmptyPointsFailBeforeAnyRequest ==
    tPoints = << >> /\ tpc # "idle" =>
        /\ tpc \in { "call", "returned" }
        /\ ppc \in { "idle", "wait", "returned" }
        /\ tpc = "returned" =>
             /\ tRet.returned /\ tRet.err # NoErr
             /\ tRet.distances = << >> /\ tRet.durations = << >>
        /\ ppc = "returned" =>
             /\ pRet.returned /\ pRet.err # NoErr
             /\ pRet.geometry = EmptyPolyline /\ pRet.legs = << >>
        /\ tPlan.requests = << >> /\ pPath = << >>
        /\ tReqCount = << >> /\ pCalls = 0
        /\ ~tTouched /\ tCache = << >>

\* C19's case: on a client with a cache, Table and then Polyline have been
\* called without points and both have returned their error.
C19_Witness ==
    /\ tPoints = << >>
    /\ tClient.useCache
    /\ tpc = "returned" /\ tRet.err = PlainErr("empty")
    /\ ppc = "returned" /\ pRet.err = PlainErr("empty")

\* C20 as stated: when the filtering of empty points has removed every point
\* of a non-empty input, the planner fails: Table returns an error and no
\* request is built or sent.
C20_NothingToPlanFails ==
    /\ tClient.removeEmpty
    /\ tPoints # << >>
    /\ \A i \in 1..Len(tPoints) : tPoints[i] = << >> \/ tPoints[i] = << 0, 0 >>
    /\ tpc \notin { "idle", "call" }
    => /\ tPlan.requests = << >>
       /\ \A i \in 1..Len(tReqCount) : tReqCount[i] = 0
       /\ tpc = "returned" /\ tRet.returned /\ tRet.err # NoErr

(***************************************************************************)
(* Properties of the Polyline call.                                        *)
(***************************************************************************)
PolylineSucceeded == ppc = "returned" /\ pRet.returned /\ pRet.err = NoErr

\* The response Polyline's get delivered: the bytes it stored in the cache.
PolylineResponse ==
    RouteResponseOf(CacheValue(tCache, CacheKey(pPath[1])),
                    handleUnroutablePoints(tPoints))

\* C21: on success for p >= 1 points, Polyline returns the first route's
\* geometry as the backend sent it and exactly p-1 leg polylines, the i-th
\* decoding to the decoded step geometries of the backend's i-th leg, one
\* after the other in step order; for 2 points it returns exactly 1 leg.
C21_PolylineReturnsRouteAndLegs ==
    PolylineSucceeded /\ Len(tPoints) >= 1 =>
        LET route == PolylineResponse.Routes[1]
            stepCoords(i) == [ k \in 1..Len(route.Legs[i].Steps) |->
                                 PrefixSums(route.Legs[i].Steps[k].deltas, 0) ]
        IN  /\ pRet.geometry = route.Geometry
            /\ Len(pRet.legs) = Len(tPoints) - 1
            /\ Len(route.Legs) = Len(pRet.legs)
            /\ \A i \in 1..Len(route.Legs) :
                 /\ pRet.legs[i].ok
                 /\ PrefixSums(pRet.legs[i].deltas, 0) = Flatten(stepCoords(i))
            /\ Len(tPoints) = 2 => Len(pRet.legs) = 1

\* C21's case: three points; the first of the two leg polylines encodes the
\* coordinates 2, 3 of the leg's first step followed by 3, 5 of its second.
C21_Witness ==
    /\ PolylineSucceeded
    /\ tPoints = RoutablePoints(3)
    /\ Len(pRet.legs) = 2
    /\ pRet.legs[1].deltas = << 2, 1, 0, 2 >>
    /\ pRet.geometry.deltas = << 1, 2, 3 >>

\* C22 as stated: Polyline returns an error and no polylines both when the
\* response's code is not "Ok" and when the code is "Ok" but there is no
\* route; in neither case does the call crash.
C22_NoRouteIsAnError ==
    /\ ppc \in { "returned", "panicked" }
    /\ pPath # << >>
    /\ CacheKey(pPath[1]) \in CacheKeys(tCache)
    /\ PolylineResponse.Routes = << >>
    /\ CacheValue(tCache, CacheKey(pPath[1])) # "garbage"
    => /\ ppc = "returned"
       /\ pRet.err # NoErr
       /\ pRet.geometry = EmptyPolyline /\ pRet.legs = << >>

(***************************************************************************)
(* Progress of the Table call.                                             *)
(***************************************************************************)
\* Table has returned to its caller: every task has acquired a slot and
\* published, and the caller has received one result per request.
TableEnded ==
    /\ tpc = "returned"
    /\ Len(tResults) = Len(Requests)
    /\ \A i \in Tasks : tTask[i] \in { "published", "done" }

\* C24: when every transport call returns, every Table call returns: every
\* task acquires a slot, a task that is about to send finds room in the
\* results channel, and the caller receives all results, for fewer, as many
\* and more requests than the in-flight capacity.
C24_TableCallEnds ==
    /\ <>TableEnded
    /\ [](\A i \in Tasks : tTask[i] \in { "acquired", "inflight" }
                               => Len(tOut) < Len(Requests))

\* C24's case: four requests with an in-flight capacity of 1; every task is
\* done and Table has returned.
C24_Witness ==
    /\ tpc = "returned"
    /\ Len(Requests) = 4
    /\ tConfig.parallelRuns = 1
    /\ Len(tResults) = 4
    /\ \A i \in Tasks : tTask[i] = "done"

(***************************************************************************)
(* The tasks' results, slots and transport calls.                          *)
(***************************************************************************)
\* The results of task i, on the channel or with the caller.
ResultsOf(i) ==
    { k \in 1..Len(tResults \o tOut) : (tResults \o tOut)[k].i = i }

\* C25: each task of a Table call publishes exactly one result, an error
\* exactly when its request failed and a block result otherwise, and Table
\* decides on success or failure only when it has received exactly one
\* result per planned request.
C25_OneResultPerTask ==
    /\ \A i \in Tasks :
         /\ Cardinality(ResultsOf(i)) = IF tTask[i] \in { "published", "done" } THEN 1 ELSE 0
         /\ \A k \in ResultsOf(i) : ((tResults \o tOut)[k].err # NoErr) <=> (i \in tFailed)
    /\ Len(tResults \o tOut) <= Len(Requests)
    /\ tRet.returned \/ tRet.panicked =>
         /\ tOut = << >>
         /\ Len(tResults) = Len(Requests)
         /\ \A i \in Tasks : Cardinality({ k \in 1..Len(tResults) : tResults[k].i = i }) = 1

\* C25's case: Table has returned on four results, one per task, of which
\* two are errors and two are block results.
C25_Witness ==
    /\ tRet.returned
    /\ Len(tResults) = 4
    /\ Cardinality(tFailed) = 2
    /\ Cardinality({ k \in 1..4 : tResults[k].err = NoErr }) = 2

\* C26: the slots taken from the guard channel are those of the tasks that
\* have acquired and not yet finished, whichever way a task's request ends,
\* so when all tasks of the call have finished no slot is held.
C26_SlotReleasedOnce ==
    /\ tGuard = Cardinality(Holding)
    /\ (\A i \in Tasks : tTask[i] = "done") => tGuard = 0

\* C26's case: four tasks have finished, some of them with a failed request
\* and some with a block result, and no slot is held.
C26_Witness ==
    /\ Len(Requests) = 4
    /\ \A i \in Tasks : tTask[i] = "done"
    /\ tFailed # {}
    /\ tFailed # Tasks
    /\ tGuard = 0

RECURSIVE SumSeq(_)
SumSeq(q) == IF q = << >> THEN 0 ELSE Head(q) + SumSeq(Tail(q))

\* The calls of the transport that the tasks have made.
TransportCalls == SumSeq(tReqCount)

\* C27: in one Table call each task calls the transport at most once, the
\* transport calls are never more than the planned requests, and a task
\* whose request failed has made no second call.
C27_AtMostOneTransportCallPerTask ==
    /\ \A i \in Tasks : tReqCount[i] <= 1
    /\ TransportCalls <= Len(Requests)
    /\ \A i \in tFailed : tReqCount[i] <= 1 /\ tTask[i] \in { "published", "done" }

\* C27's case: a task whose transport call failed has finished with one
\* call, in a call of four requests.
C27_Witness ==
    /\ Len(Requests) = 4
    /\ \E i \in tFailed : tReqCount[i] = 1 /\ tTask[i] = "done"
    /\ tRet.returned

\* C28: with a cache, a task that called the transport publishes what its
\* own call delivered (an error exactly when its own call failed), however
\* many tasks fetched the same path, and when no task's request failed the
\* call succeeds with matrices.
C28_DuplicateFetchesAreTolerated ==
    tClient.useCache =>
        /\ \A k \in 1..Len(tResults \o tOut) :
             LET r == (tResults \o tOut)[k]
             IN  tReqCount[r.i] = 1 => ((r.err = NoErr) <=> (r.i \notin tFailed))
        /\ tRet.returned /\ tPoints # << >> /\ tFailed = {} =>
             tRet.err = NoErr /\ tRet.distances # << >>

\* C28's case: with a cache, two tasks with the same path have both missed
\* and both called the transport, and Table has returned matrices.
C28_Witness ==
    /\ tClient.useCache
    /\ \E i, j \in Tasks :
         /\ i # j
         /\ Requests[i].path = Requests[j].path
         /\ tReqCount[i] = 1
         /\ tReqCount[j] = 1
    /\ tRet.returned
    /\ tRet.err = NoErr
    /\ tRet.distances # << >>

\* C30 as stated: the classification of the aggregate error that Table
\* returns is the one it returns for the same results in every other
\* arrival order.
C30_ClassificationIndependentOfArrival ==
    tRet.returned /\ tRet.err # NoErr /\ tPoints # << >> =>
        \A order \in Permutations(1..Len(tResults)) :
            LET other == [ k \in 1..Len(tResults) |-> tResults[order[k]] ]
            IN  IsInputError(TableReturn(tClient, tPlan, other).err) = IsInputError(tRet.err)

(***************************************************************************)
(* The closing of the channels.                                            *)
(***************************************************************************)
\* C31: Table closes out and guard when it returns, and by then every task
\* has made its sends: no task is still before its send on guard or before
\* its send on out, and out is drained; a task that has yet to run its
\* deferred release only receives from guard.
C31_NoSendAfterClose ==
    /\ tRet.returned /\ tPoints # << >> => tClosed
    /\ tClosed =>
         /\ \A i \in Tasks : tTask[i] \in { "published", "done" }
         /\ tOut = << >>
         /\ Len(tResults) = Len(Requests)

\* C31's case: Table has returned and closed the channels while a task has
\* yet to run its deferred release and another has finished.
C31_Witness ==
    /\ tRet.returned
    /\ tClosed
    /\ tGuard > 0
    /\ \E i \in Tasks : tTask[i] = "published"
    /\ \E i \in Tasks : tTask[i] = "done"

(***************************************************************************)
(* The repeated Table call.                                                *)
(***************************************************************************)
\* C33: on a caching client whose capacity is at least the number of
\* different request paths, a Table call that follows a successful call with
\* the same points, settings and options plans the same requests, calls the
\* transport for none of them and returns the matrices of the first call.
C33_RepeatedCallIsServedFromCache ==
    /\ rRound >= 2
    /\ tClient.cacheSize >= DistinctPaths(tClient, tConfig, tPoints)
    =>  /\ tpc # "panicked"
        /\ \A i \in Tasks : tReqCount[i] = 0
        /\ tFailed = {}
        /\ tpc = "returned" =>
             /\ tRet = rFirst
             /\ tRet.err = NoErr
             /\ tRet.distances # << >>

\* C33's case: the second call of three points in blocks of two has
\* returned the first call's 3 x 3 matrices without a transport call.
C33_Witness ==
    /\ rRound = 2
    /\ tpc = "returned"
    /\ Len(tPoints) = 3
    /\ Len(Requests) = 4
    /\ tClient.cacheSize >= DistinctPaths(tClient, tConfig, tPoints)
    /\ TransportCalls = 0
    /\ tRet = rFirst
    /\ Len(tRet.distances) = 3

(***************************************************************************)
(* Properties of the HTTP runner.                                          *)
(***************************************************************************)
\* The requests that hold a slot: admitted and not finished.
SlotHolders ==
    { i \in HTTPRequests : hpc[i] \in { "admitted", "produced", "set", "running" } }

\* Request i's select found every slot taken.
FoundFull(i) == hSeen[i] >= hCap

\* C35: at most maxParallel requests run the algorithm at the same time; a
\* request that arrives while all slots are taken is answered at once with
\* status 429, without waiting, without running the algorithm and without
\* taking or freeing a slot; an admitted request frees its slot when it
\* finishes, whether its run succeeded or failed.
C35_SlotsBoundTheRuns ==
    /\ Cardinality({ i \in HTTPRequests : hpc[i] = "running" }) <= hCap
    /\ hSlots = Cardinality(SlotHolders)
    /\ hSlots <= hCap
    /\ \A i \in HTTPRequests :
          /\ hpc[i] = "arrived" => ENABLED Select(i)
          /\ hpc[i] # "arrived" /\ FoundFull(i) =>
                /\ hpc[i] = "done"
                /\ hStatus[i] = StatusTooManyRequests
                /\ hUsed[i] = 0
          /\ hpc[i] # "arrived" /\ ~FoundFull(i) =>
                hStatus[i] # StatusTooManyRequests

\* C35's case: with two slots, one request was turned away with 429 while
\* both slots were taken, one admitted run failed and one succeeded, and
\* every slot is free again.
C35_Witness ==
    /\ hCap = 2
    /\ hSlots = 0
    /\ \E i, j, k \in HTTPRequests :
          /\ hStatus[i] = StatusTooManyRequests /\ hSeen[i] = 2
          /\ hStatus[j] = StatusInternalServerError /\ hUsed[j] # 0
          /\ hStatus[k] = StatusOK /\ hUsed[k] # 0

\* C36: with maxParallel > 1, the run of every admitted request uses the
\* IOProducer built from that same request and response writer.
C36_RunUsesOwnIOProducer ==
    hCap > 1 => \A i \in HTTPRequests : hUsed[i] \in { 0, i }

(***************************************************************************)
(* Properties of the MultiMap.                                             *)
(***************************************************************************)
\* C37: Get behaves as a map keyed by the tuple of identifier IDs: create
\* has been invoked exactly once per distinct tuple requested, a Get of a
\* tuple returns the value created for that same tuple, and Length is the
\* number of distinct tuples requested.
C37_GetIsAMapOnTuples ==
    /\ \A t \in Tuples : mCreated[t] = IF t \in mRequested THEN 1 ELSE 0
    /\ mCalls > 0 => mLast.ret = create(mLast.ids)
    /\ Length = Cardinality(mRequested)


=============================================================================
